---- MODULE Spec2Model ----
(***************************************************************************)
(* Model of package httpctx (github.com/spkg/httpctx): context-aware HTTP  *)
(* handlers, the middleware Stack, the per-request context created by      *)
(* newContext and the error response written by sendError; and of the      *)
(* packages log and env that accompany it.                                 *)
(***************************************************************************)
EXTENDS Integers, Sequences, FiniteSets, TLC

\* ------------------------------------------------------------------ bounds
\* Stack nodes the program allocates (the heap of *Stack values).
MaxNodes == 4
\* Arguments of one Use call.
MaxArgs == 2
\* http.Handler values the program builds with Handle / HandleFunc.
MaxHandlers == 1
\* Requests the transport dispatches in all.
MaxServed == 1

\* ------------------------------------------------------------ middleware
\* The middleware functions of the program; NilMiddleware is a nil func value.
Middlewares == {"m1", "m2"}
NilMiddleware == "nil"
\* The contexts a main program hands to Context: the background context,
\* which is never cancelled, and an application context, which may be.
Background == "background"
AppContext == "app"
Contexts == {Background, AppContext}
\* A nil context.Context argument.
NilContext == "nilctx"
\* A nil *Stack.
NilStack == 0

\* func(Handler) Handler values stored in a Stack node: a middleware of the
\* program, or the closure m that Context builds around ctx.
UserMiddleware(name) == [kind |-> "user", name |-> name, ctx |-> "none"]
ContextMiddleware(ctx) == [kind |-> "context", name |-> "context", ctx |-> ctx]

\* The argument lists f ...func(h Handler) Handler of a Use call.
ArgLists == UNION {[1..n -> Middlewares \cup {NilMiddleware}] : n \in 0..MaxArgs}

VARIABLES
    stacks,     \* the heap of Stack nodes: stacks[p] is the node *p
    roots,      \* the *Stack values the program holds (results of Context/Use)
    registry,   \* history: for each held stack, the context and the non-nil
                \* middleware in the order they were passed to Use
    handlers,   \* the http.Handler values built so far
    req,        \* per request: the call in progress in the handler chain
    sink,       \* per request: the http.ResponseWriter w
    scope,      \* per request: the context made by newContext and its Done channel
    watcher,    \* per request: the goroutine started by newContext
    listener,   \* per request: a goroutine blocked on <-ctx.Done()
    conn,       \* per request: the transport's connection and CloseNotify channel
    appDone,    \* whether the application context has been cancelled
    served,     \* the number of requests dispatched so far
    jsonErr,    \* whether json.Marshal returns an error to sendError
    logging,    \* package log: MinSeverity, Print and the last message logged
    environment, \* package env: the environment name, its flags and callbacks
    metrics,    \* the expvar maps "responses" and "errors" and the responseWriters
    raw         \* package raw: a Data value and the last WriteResponse call on it

vars == <<stacks, roots, registry, handlers, req, sink, scope, watcher, listener, conn, appDone, served, jsonErr, logging, environment, metrics, raw>>
buildVars == <<stacks, roots, registry, handlers>>
serveVars == <<req, sink, scope, watcher, listener, conn, appDone, served>>

\* ----------------------------------------------------------------- Stack
\* A push that writes the new middleware into the node it is given, moving
\* that node's old content to a fresh node, and returns the same pointer.
NewStackInPlace(heap, m, previous) ==
    IF previous = NilStack
    THEN [heap |-> Append(heap, [middleware |-> m, previous |-> previous]),
          top |-> Len(heap) + 1]
    ELSE [heap |-> Append([heap EXCEPT ![previous] = [middleware |-> m, previous |-> Len(heap) + 1]],
                          heap[previous]),
          top |-> previous]

\* &Stack{middleware: m, previous: stack}: allocates a node, returns the heap
\* and the new pointer.
NewStack(heap, m, previous) ==
    [heap |-> Append(heap, [middleware |-> m, previous |-> previous]),
     top |-> Len(heap) + 1]

\* A loop without the test "if m != nil": every entry gets a node.
RECURSIVE PushAllWithNil(_, _, _)
PushAllWithNil(heap, stack, f) ==
    IF f = <<>> THEN [heap |-> heap, top |-> stack]
    ELSE LET n == NewStack(heap, UserMiddleware(Head(f)), stack)
         IN  PushAllWithNil(n.heap, n.top, Tail(f))

\* The loop "for _, m := range f { if m != nil { stack = &Stack{...} } }".
RECURSIVE PushAll(_, _, _)
PushAll(heap, stack, f) ==
    IF f = <<>> THEN [heap |-> heap, top |-> stack]
    ELSE IF Head(f) = NilMiddleware THEN PushAll(heap, stack, Tail(f))
    ELSE LET n == NewStack(heap, UserMiddleware(Head(f)), stack)
         IN  PushAll(n.heap, n.top, Tail(f))

\* Context(ctx): a stack of one node holding the context middleware.
ContextStack(heap, ctx) ==
    NewStack(heap, ContextMiddleware(IF ctx = NilContext THEN Background ELSE ctx), NilStack)

\* Use(f...): Context(context.Background()) with f pushed on it.
UseStack(heap, f) ==
    LET base == ContextStack(heap, Background)
    IN  PushAll(base.heap, base.top, f)

\* A Stack.Use that starts from a nil stack instead of its receiver.
StackUseDropBase(heap, s, f) == PushAll(heap, NilStack, f)

\* s.Use(f...): f pushed on s.
StackUseStack(heap, s, f) == PushAll(heap, s, f)

\* A composition that wraps the other way round: the node reached first
\* becomes the outermost layer.
RECURSIVE ApplyStackInward(_, _, _)
ApplyStackInward(heap, stack, h) ==
    IF stack = NilStack THEN h
    ELSE <<heap[stack].middleware>> \o ApplyStackInward(heap, heap[stack].previous, h)

\* The loop of Stack.Handle, "for stack := s; stack != nil; stack =
\* stack.previous { h = stack.middleware(h) }". A Handler is the sequence of
\* its layers, outermost first, ending with the terminal handler.
RECURSIVE ApplyStack(_, _, _)
ApplyStack(heap, stack, h) ==
    IF stack = NilStack THEN h
    ELSE ApplyStack(heap, heap[stack].previous, <<heap[stack].middleware>> \o h)

\* The terminal handler passed to Handle / HandleFunc.
Terminal == [kind |-> "terminal", name |-> "h", ctx |-> "none"]

\* The non-nil entries of f, in order.
RECURSIVE NonNil(_)
NonNil(f) ==
    IF f = <<>> THEN <<>>
    ELSE IF Head(f) = NilMiddleware THEN NonNil(Tail(f))
    ELSE <<Head(f)>> \o NonNil(Tail(f))

NodesNeeded(f) == Len(NonNil(f))
\* The argument lists that allocate at most c nodes.
ArgsWithin == [c \in 0..MaxNodes |-> {f \in ArgLists : NodesNeeded(f) <= c}]

\* -------------------------------------------------------- requests, errors
\* The requests in flight at one time: each has a slot, which the transport
\* uses again once the request and its goroutines have ended.
Slots == {1}

\* Strings the code inspects are sequences of characters.
StrEmpty == <<>>
StrJSON == <<"a","p","p","l","i","c","a","t","i","o","n","/","j","s","o","n">>
StrRoot == <<"/">>
StrApi == <<"/","a","p","i","/">>
StrERR == <<"E","R","R">>
StrBadStatus == <<"b","a","d"," ","s","t","a","t","u","s"," ","c","o","d","e">>
StrTeapot == <<"4","1","8"," ","I","'","m"," ","n","o","t"," ","a"," ","T","e","a","p","o","t">>
StrNosniff == <<"n","o","s","n","i","f","f">>
StrTextPlain == <<"t","e","x","t","/","p","l","a","i","n",";"," ","c","h","a","r","s","e","t","=","u","t","f","-","8">>

\* *http.Request values: the Accept header and the URL path.
HttpRequests ==
    {[accept |-> StrEmpty, path |-> StrRoot],
     [accept |-> StrJSON, path |-> StrRoot]}

\* error values a handler returns; statusCoder / coder say whether the value
\* has a StatusCode() int / Code() string method.
NoError == [text |-> <<>>, statusCoder |-> FALSE, status |-> 0, coder |-> FALSE, code |-> <<>>, nil |-> TRUE]
\* fmt.Errorf("ERR"), HTTPError{Err: fmt.Errorf("bad status code"), Code: 3}
\* and HTTPErrorCode{Err: nil, StatusCode: "418 I'm not a Teapot"}.
Errors ==
    {[text |-> StrERR, statusCoder |-> FALSE, status |-> 0, coder |-> FALSE, code |-> <<>>, nil |-> FALSE],
     [text |-> StrBadStatus, statusCoder |-> TRUE, status |-> 3, coder |-> FALSE, code |-> <<>>, nil |-> FALSE],
     [text |-> <<>>, statusCoder |-> FALSE, status |-> 0, coder |-> TRUE, code |-> StrTeapot, nil |-> FALSE]}

\* http.ResponseWriter header names the code touches.
HeaderNames == {"Content-Encoding", "Content-Type", "X-Content-Type-Options", "Content-Length"}
\* The value of a header that is not set (no header value is this sequence:
\* values are sequences of single characters).
NoHeader == <<"absent">>
EmptyHeader == [n \in HeaderNames |-> NoHeader]

\* A response writer on which nothing has been written.
NewSink(closeNotifier) ==
    [closeNotifier |-> closeNotifier, header |-> EmptyHeader, status |-> 0,
     sent |-> EmptyHeader, body |-> <<>>, log |-> <<>>]

\* w.WriteHeader(status) as net/http does it: the first status written wins,
\* and the header map as it is then is what the client is sent (sent); the
\* log keeps the calls made on w with their arguments.
WriteHeader(w, status, by) ==
    [w EXCEPT !.status = IF w.status = 0 THEN status ELSE @,
              !.sent = IF w.status = 0 THEN w.header ELSE @,
              !.log = Append(@, [op |-> "WriteHeader", by |-> by, status |-> status, b |-> <<>>])]

\* w.Write(b): writes status 200 first when no status was written.
Write(w, b, by) ==
    [w EXCEPT !.status = IF w.status = 0 THEN 200 ELSE @,
              !.sent = IF w.status = 0 THEN w.header ELSE @,
              !.body = Append(@, b),
              !.log = Append(@, [op |-> "Write", by |-> by, status |-> 0, b |-> b])]

\* ------------------------------------------------------------- sendError
\* strings.HasPrefix(s, prefix)
HasPrefix(s, prefix) ==
    /\ Len(s) >= Len(prefix)
    /\ SubSeq(s, 1, Len(prefix)) = prefix

\* strings.Contains(s, substr)
Contains(s, substr) ==
    \E i \in 0..(Len(s) - Len(substr)) : SubSeq(s, i + 1, i + Len(substr)) = substr

\* A test of the path that leaves out the slash after "/api".
shouldSendJSONApi(r) ==
    Contains(r.accept, StrJSON) \/ HasPrefix(r.path, SubSeq(StrApi, 1, 4))

\* shouldSendJSON(r)
shouldSendJSON(r) ==
    Contains(r.accept, StrJSON) \/ HasPrefix(r.path, StrApi)

\* strconv.Itoa(n) for n >= 0
Digit(d) == CASE d = 0 -> "0" [] d = 1 -> "1" [] d = 2 -> "2" [] d = 3 -> "3" [] d = 4 -> "4"
              [] d = 5 -> "5" [] d = 6 -> "6" [] d = 7 -> "7" [] d = 8 -> "8" [] OTHER -> "9"
RECURSIVE Itoa(_)
Itoa(n) == IF n < 10 THEN <<Digit(n)>> ELSE Itoa(n \div 10) \o <<Digit(n % 10)>>

\* The JSON encoding of one character of a string: quote, backslash and
\* newline are escaped, and so are <, > and & (json.Marshal escapes HTML).
EscapeOf(c) ==
    CASE c = "\"" -> <<"\\", "\"">>
      [] c = "\\" -> <<"\\", "\\">>
      [] c = "\n" -> <<"\\", "n">>
      [] c = "<" -> <<"\\", "u", "0", "0", "3", "c">>
      [] c = ">" -> <<"\\", "u", "0", "0", "3", "e">>
      [] c = "&" -> <<"\\", "u", "0", "0", "2", "6">>
      [] OTHER -> <<c>>

\* The JSON encoding of a string: the encoded characters between quotes.
RECURSIVE JSONEscape(_)
JSONEscape(str) ==
    IF str = <<>> THEN <<>>
    ELSE EscapeOf(Head(str)) \o JSONEscape(Tail(str))
JSONString(str) == <<"\"">> \o JSONEscape(str) \o <<"\"">>

\* An encoding of a map that holds the status as a string.
MarshalStatusString(resp) ==
    [ok |-> ~jsonErr,
     b |-> <<"{">> \o JSONString(<<"e","r","r","o","r">>) \o <<":", "{">>
           \o (IF resp.hasCode
               THEN JSONString(<<"c","o","d","e">>) \o <<":">> \o JSONString(resp.code) \o <<",">>
               ELSE <<>>)
           \o JSONString(<<"m","e","s","s","a","g","e">>) \o <<":">> \o JSONString(resp.message) \o <<",">>
           \o JSONString(<<"s","t","a","t","u","s">>) \o <<":">> \o JSONString(Itoa(resp.status))
           \o <<"}", "}">>]

\* An encoding that writes the "code" key whether or not the map has it.
MarshalWithCode(resp) ==
    [ok |-> ~jsonErr,
     b |-> <<"{">> \o JSONString(<<"e","r","r","o","r">>) \o <<":", "{">>
           \o JSONString(<<"c","o","d","e">>) \o <<":">> \o JSONString(resp.code) \o <<",">>
           \o JSONString(<<"m","e","s","s","a","g","e">>) \o <<":">> \o JSONString(resp.message) \o <<",">>
           \o JSONString(<<"s","t","a","t","u","s">>) \o <<":">> \o Itoa(resp.status)
           \o <<"}", "}">>]

\* json.Marshal(resp) of the map built by sendError: keys in sorted order.
\* The encoder does not fail on a map of strings and ints; jsonErr stands for
\* the error result its signature allows and sendError tests (err != nil).
Marshal(resp) ==
    [ok |-> ~jsonErr,
     b |-> <<"{">> \o JSONString(<<"e","r","r","o","r">>) \o <<":", "{">>
           \o (IF resp.hasCode
               THEN JSONString(<<"c","o","d","e">>) \o <<":">> \o JSONString(resp.code) \o <<",">>
               ELSE <<>>)
           \o JSONString(<<"m","e","s","s","a","g","e">>) \o <<":">> \o JSONString(resp.message) \o <<",">>
           \o JSONString(<<"s","t","a","t","u","s">>) \o <<":">> \o Itoa(resp.status)
           \o <<"}", "}">>]

\* A status code that starts from http.StatusOK.
StatusCodeOfDefaultOK(err) ==
    IF err.statusCoder /\ err.status # 0 THEN err.status ELSE 200

\* A status code taken from every error that has a StatusCode method, also
\* when the method returns 0.
StatusCodeOfDeclared(err) ==
    IF err.statusCoder THEN err.status ELSE 500

\* The status code sendError chooses for err.
StatusCodeOf(err) ==
    IF err.statusCoder /\ err.status # 0 THEN err.status ELSE 500

\* The code string sendError reads from err ("" without a Code method).
CodeOf(err) == IF err.coder THEN err.code ELSE <<>>

\* An http.Error that writes the text with Fprint instead of Fprintln.
HttpErrorNoNewline(w, text, code) ==
    LET h == [w EXCEPT !.header["Content-Type"] = StrTextPlain,
                       !.header["X-Content-Type-Options"] = StrNosniff]
    IN  Write(WriteHeader(h, code, "sendError"), text, "sendError")

\* http.Error(w, error, code)
HttpError(w, text, code) ==
    LET h == [w EXCEPT !.header["Content-Type"] = StrTextPlain,
                       !.header["X-Content-Type-Options"] = StrNosniff]
    IN  Write(WriteHeader(h, code, "sendError"), text \o <<"\n">>, "sendError")

\* A Del that leaves the header in place.
HeaderKeep(w, name) == w

\* w.Header().Del(name)
HeaderDel(w, name) == [w EXCEPT !.header[name] = NoHeader]

\* A length that counts a newline after the body, as http.Error writes one.
ContentLengthWithNewline(b) == Itoa(Len(b) + 1)

\* strconv.Itoa(len(b))
ContentLength(b) == Itoa(Len(b))

\* A renderer that gives up when it has no body, and one that writes the
\* body before the status line.
WriteResponseOrNothing(w, statusCode, b, hasBody) ==
    IF hasBody THEN Write(WriteHeader(w, statusCode, "sendError"), b, "sendError") ELSE w
WriteResponseBodyFirst(w, statusCode, b, hasBody) ==
    WriteHeader(IF hasBody THEN Write(w, b, "sendError") ELSE w, statusCode, "sendError")

\* w.WriteHeader(statusCode); if b != nil { w.Write(b) }
WriteResponse(w, statusCode, b, hasBody) ==
    LET w3 == WriteHeader(w, statusCode, "sendError")
    IN  IF hasBody THEN Write(w3, b, "sendError") ELSE w3

\* sendError(w, r, err): the response writer after the call.
sendError(w, r, err) ==
    LET statusCode == StatusCodeOf(err)
        code == CodeOf(err)
        w1 == HeaderDel(w, "Content-Encoding")
    IN  IF shouldSendJSON(r)
        THEN LET resp == [message |-> err.text, status |-> statusCode,
                          hasCode |-> code # <<>>, code |-> code]
                 m == Marshal(resp)
                 b == IF m.ok THEN m.b ELSE <<>>
                 w2 == [w1 EXCEPT !.header["Content-Type"] = StrJSON,
                                  !.header["X-Content-Type-Options"] = StrNosniff,
                                  !.header["Content-Length"] = ContentLength(b)]
             IN  WriteResponse(w2, statusCode, b, m.ok)
        ELSE HttpError(w1, err.text, statusCode)

\* ------------------------------------------------------------ newContext
\* The state of a request for which newContext has not run.
\* The deadline of a context that has none; a deadline d > 0 is d units of
\* time after the context was made.
NoDeadline == 0
NoScope ==
    [made |-> FALSE, parent |-> Background, done |-> FALSE, closes |-> 0, calls |-> 0,
     deadline |-> NoDeadline, elapsed |-> 0]
NoConn == [closed |-> FALSE, acquired |-> FALSE, received |-> FALSE]
NoListener == [state |-> "none", wakes |-> 0]

\* Whether context ctx is cancelled (the background context never is).
ContextDone(ctx, cancelled) == ctx = AppContext /\ cancelled

\* context.WithCancel(parent): a child that is done at once under a
\* cancelled parent. closes counts the times the Done channel was closed.
\* context.WithTimeout(parent, Timeout) with a Timeout of one unit of time.
WithTimeout(parent, parentDone) ==
    [made |-> TRUE, parent |-> parent, done |-> parentDone,
     closes |-> IF parentDone THEN 1 ELSE 0, calls |-> 0,
     deadline |-> 1, elapsed |-> 0]

WithCancel(parent, parentDone) ==
    [made |-> TRUE, parent |-> parent, done |-> parentDone,
     closes |-> IF parentDone THEN 1 ELSE 0, calls |-> 0,
     deadline |-> NoDeadline, elapsed |-> 0]

\* Time passes for a context: the timer of a context with a deadline closes
\* Done when the deadline is reached.
Elapse(sc) ==
    LET due == sc.deadline # NoDeadline /\ sc.elapsed + 1 >= sc.deadline /\ ~sc.done
    IN  [sc EXCEPT !.elapsed = @ + 1,
                   !.done = IF due THEN TRUE ELSE @,
                   !.closes = IF due THEN @ + 1 ELSE @]

\* A cancel function that closes Done on every call.
cancelFuncAgain(sc) ==
    [sc EXCEPT !.done = TRUE, !.closes = @ + 1, !.calls = @ + 1]

\* The cancel function of the context: closes Done on the first call only.
cancelFunc(sc) ==
    [sc EXCEPT !.done = TRUE,
               !.closes = IF sc.done THEN @ ELSE @ + 1,
               !.calls = @ + 1]

\* A request context that is not a child of the context given to Context:
\* the cancellation of that context does not reach it.
ParentCancelledUnlinked(sc) == sc

\* Cancellation of the parent reaching a child context.
ParentCancelled(sc) ==
    IF sc.made /\ sc.parent = AppContext /\ ~sc.done
    THEN [sc EXCEPT !.done = TRUE, !.closes = @ + 1]
    ELSE sc

\* A newContext that starts from context.Background() whatever ctx is.
newContextBackground(ctx, w, parentDone) ==
    [scope |-> WithCancel(Background, FALSE),
     watcher |-> IF w.closeNotifier THEN "select" ELSE "none",
     acquired |-> w.closeNotifier]

\* A newContext without the test "if ctx == nil".
newContextKeepNil(ctx, w, parentDone) ==
    [scope |-> WithCancel(ctx, parentDone),
     watcher |-> IF w.closeNotifier THEN "select" ELSE "none",
     acquired |-> w.closeNotifier]

\* A nil http.ResponseWriter: the type assertion w.(http.CloseNotifier) on it
\* is not ok, and it has nothing else.
NilWriter == [closeNotifier |-> FALSE, nil |-> TRUE]

\* A newContext that starts the watcher without the test
\* "closeNotifier, ok := w.(http.CloseNotifier); ok".
newContextAlwaysWatch(ctx, w, parentDone) ==
    [scope |-> WithCancel(IF ctx = NilContext THEN Background ELSE ctx, parentDone),
     watcher |-> "select",
     acquired |-> TRUE]

\* A newContext that leaves the call of CloseNotify to the goroutine it
\* starts: the channel is not acquired when newContext returns.
newContextLateAcquire(ctx, w, parentDone) ==
    [scope |-> WithCancel(IF ctx = NilContext THEN Background ELSE ctx, parentDone),
     watcher |-> IF w.closeNotifier THEN "select" ELSE "none",
     acquired |-> FALSE]

\* newContext(ctx, w, r): the context, and the watcher goroutine with the
\* CloseNotify channel acquired before it starts, when w is a CloseNotifier.
newContext(ctx, w, parentDone) ==
    [scope |-> WithCancel(IF ctx = NilContext THEN Background ELSE ctx, parentDone),
     watcher |-> IF w.closeNotifier THEN "select" ELSE "none",
     acquired |-> w.closeNotifier]

\* A select without the closeChan case.
WatcherCasesDoneOnly(sc, c) == IF sc.done THEN {"ctx.Done"} ELSE {}

\* A select without the ctx.Done() case.
WatcherCasesCloseOnly(sc, c) ==
    IF c.acquired /\ c.closed /\ ~c.received THEN {"closeChan"} ELSE {}

\* A select whose closeChan case can proceed before anything was sent on
\* the channel (as a receive from a closed channel can).
WatcherCasesEarly(sc, c) ==
    (IF c.acquired /\ ~c.received THEN {"closeChan"} ELSE {})
    \cup (IF sc.done THEN {"ctx.Done"} ELSE {})

\* The cases of the watcher's select that can proceed.
WatcherCases(sc, c) ==
    (IF c.acquired /\ c.closed /\ ~c.received THEN {"closeChan"} ELSE {})
    \cup (IF sc.done THEN {"ctx.Done"} ELSE {})

\* ----------------------------------------------------------- the program
NoHandler == [chain |-> <<>>, order |-> <<>>, stack |-> NilStack]
NoRequest == [accept |-> StrEmpty, path |-> StrEmpty]
IdleRequest ==
    [phase |-> "idle", handler |-> NoHandler, r |-> NoRequest, depth |-> 0,
     ctx |-> Background, err |-> NoError, trace |-> <<>>, rendered |-> <<>>]

\* The history of a stack: the context ctx of its context middleware, the
\* stack it was derived from, the names given to the call that made it, and
\* all the names registered on it, in the order given.
History(ctx, base, own, order) == [ctx |-> ctx, base |-> base, own |-> own, order |-> order]

\* ------------------------------------------------------------ package log
\* type Severity int: the iota constants of severity.go.
SeverityDebug == 0
SeverityInfo == 1
SeverityWarning == 2
SeverityError == 3
SeverityFatal == 4
Severities == {SeverityDebug, SeverityInfo, SeverityWarning, SeverityError, SeverityFatal}

StatusInternalServerError == 500
StatusBadRequest == 400

\* The revisions of log.go: the one built on newMessage and the type Option,
\* and the two earlier ones that build the Message as a literal, with and
\* without a Timestamp.
RevNewMessage == "newMessage"
RevTimestamp == "literal with Timestamp"
RevLiteral == "literal"
LogRevisions == {RevNewMessage, RevTimestamp, RevLiteral}

\* A *Message; Err says whether the field Err is set. The Timestamp is the
\* time of the call and is left out.
newMessage(severity, text) ==
    [Severity |-> severity, Text |-> text, StatusCode |-> StatusInternalServerError, Err |-> FALSE]

\* Options: functions applied to the message.
WithError == [op |-> "WithError", s |-> SeverityDebug, code |-> 0]
WithStatusCode(code) == [op |-> "WithStatusCode", s |-> SeverityDebug, code |-> code]
WithSeverity(s) == [op |-> "WithSeverity", s |-> s, code |-> 0]
Options ==
    {WithError, WithStatusCode(StatusBadRequest), WithSeverity(SeverityDebug), WithSeverity(SeverityFatal)}

applyOpt(m, opt) ==
    IF opt.op = "WithError" THEN [m EXCEPT !.Err = TRUE]
    ELSE IF opt.op = "WithStatusCode" THEN [m EXCEPT !.StatusCode = opt.code]
    ELSE [m EXCEPT !.Severity = opt.s]

\* applyOpts / apply: the options in the order given.
RECURSIVE applyOpts(_, _)
applyOpts(m, opts) ==
    IF opts = <<>> THEN m ELSE applyOpts(applyOpt(m, Head(opts)), Tail(opts))

\* Whether doPrint calls Print(m); print says whether Print is not nil.
doPrint(m, printFn, min) == printFn /\ m.Severity >= min

\* The message Warn builds before it applies the options.
WarnMessage(rev, text) ==
    IF rev = RevNewMessage
    THEN newMessage(SeverityWarning, text)
    ELSE [Severity |-> SeverityError, Text |-> text,
          StatusCode |-> StatusInternalServerError, Err |-> FALSE]

\* No call of the package yet.
NoCall ==
    [fn |-> "none", opts |-> <<>>, m |-> newMessage(SeverityDebug, <<>>), printed |-> FALSE,
     MinSeverity |-> SeverityInfo, printFn |-> TRUE]

\* The package when the program starts: MinSeverity = SeverityInfo and Print
\* writes to standard output.
LogStart == [rev |-> RevNewMessage, MinSeverity |-> SeverityInfo, printFn |-> TRUE, call |-> NoCall]

\* ------------------------------------------------------------ package env
StrProduction == <<"p","r","o","d","u","c","t","i","o","n">>
StrTest == <<"t","e","s","t">>
StrDevelopment == <<"d","e","v","e","l","o","p","m","e","n","t">>
ProductionPrefix == StrProduction
TestPrefix == StrTest
DevelopmentPrefix == StrDevelopment

LowerLetters ==
    {"a","b","c","d","e","f","g","h","i","j","k","l","m",
     "n","o","p","q","r","s","t","u","v","w","x","y","z"}
Digits == {"0","1","2","3","4","5","6","7","8","9"}

\* envPattern.MatchString(name) for ^[a-z][a-z0-9]+$
envPattern(name) ==
    /\ Len(name) >= 2
    /\ name[1] \in LowerLetters
    /\ \A k \in 2..Len(name) : name[k] \in LowerLetters \cup Digits

\* error values of the package; NilError is a nil error.
NilError == "nil"
ErrNotTest == "this operation can only be performed in a test environment"
ErrInvalidName == "invalid environment name"
ErrCallback == "callback failed"

\* The names passed to SetName.
EnvNames ==
    {StrProduction, StrTest, StrDevelopment,
     StrProduction \o <<"1">>, StrTest \o <<"1">>, StrDevelopment \o <<"1">>,
     <<"D","E","V","E","L","O","P","M","E","N","T">>,
     <<"s","o","m","e","t","h","i","n","g">>,
     StrTest \o <<"_","1">>, <<"T","e","s","t">>, <<"t">>, <<>>}

NoSetName == [called |-> FALSE, name |-> <<>>, err |-> NilError]

\* The package variables when the program starts.
EnvStart ==
    [envname |-> DevelopmentPrefix, isProduction |-> FALSE, isTest |-> FALSE,
     isDevelopment |-> FALSE, callbacks |-> <<>>, last |-> NoSetName]

\* ------------------------------------------------- the metrics writer
\* The responseWriters in use at one time, one per request being served.
MetricWriters == {1, 2}

\* An expvar.Map with no entry, and m.Add(key, delta): the entry is made on
\* the first Add of its key.
NoEntries == <<>>
Get(m, key) == IF key \in DOMAIN m THEN m[key] ELSE 0
Add(m, key, delta) ==
    IF key \in DOMAIN m THEN [m EXCEPT ![key] = @ + delta] ELSE m @@ (key :> delta)
StrTotal == <<"t","o","t","a","l">>

StatusOK == 200
\* "if status >= 400" of WriteHeader, and the same test with >.
CountsAsErrorAbove(status) == status > StatusBadRequest
CountsAsError(status) == status >= StatusBadRequest

\* The status codes handlers pass to WriteHeader.
MetricStatuses == {399, StatusBadRequest, StatusInternalServerError}
MetricBody == <<"o", "k">>

\* A *responseWriter: pc is the statement its goroutine is at, status the
\* argument of the WriteHeader in progress, inWrite whether that WriteHeader
\* was called by Write; calls counts the calls made by the handler and
\* counted lists the keys this writer added to "responses".
NoWriter ==
    [made |-> FALSE, responseWriter |-> NewSink(FALSE), wroteHeader |-> FALSE, pc |-> "idle",
     status |-> 0, inWrite |-> FALSE, calls |-> 0, counted |-> <<>>]

\* The package variables when the program starts.
MetricsStart ==
    [responses |-> NoEntries, errors |-> NoEntries, w |-> [i \in MetricWriters |-> NoWriter]]

\* ------------------------------------------------------------ package raw
\* Content encodings
ceIdentity == <<"i","d","e","n","t","i","t","y">>
ceDeflate == <<"d","e","f","l","a","t","e">>
ceGzip == <<"g","z","i","p">>
\* A content encoding Decompress has no reader for.
ceBrotli == <<"b","r">>
StatusNoContent == 204

\* The errors Decompress returns: log.Error("unknown content-encoding"), the
\* error of gzip.NewReader and the error of io.Copy.
ErrUnknownEncoding == "unknown content-encoding"
ErrGzipHeader == "gzip: invalid header"
ErrUnexpectedEOF == "unexpected EOF"

\* compress/flate and compress/gzip on byte sequences: a deflate stream is
\* the payload between a block header and the end-of-stream mark, a gzip
\* stream is a deflate stream between the gzip header and the trailer.
FlateBytes(p) == <<"{">> \o p \o <<"}">>
GzipBytes(p) == <<"G">> \o FlateBytes(p) \o <<"#">>

\* io.Copy(&writer, flate.NewReader(input)): the bytes read and the error.
FlateRead(c) ==
    IF Len(c) >= 2 /\ c[1] = "{" /\ c[Len(c)] = "}"
    THEN [b |-> SubSeq(c, 2, Len(c) - 1), err |-> NilError]
    ELSE [b |-> <<>>, err |-> ErrUnexpectedEOF]

\* gzip.NewReader(input) followed by io.Copy(&writer, reader).
GzipRead(c) ==
    IF Len(c) = 0 \/ c[1] # "G" THEN [b |-> <<>>, err |-> ErrGzipHeader]
    ELSE IF c[Len(c)] # "#" THEN [b |-> <<>>, err |-> ErrUnexpectedEOF]
    ELSE FlateRead(SubSeq(c, 2, Len(c) - 1))

\* type Data struct
ZeroData ==
    [ContentType |-> <<>>, ContentEncoding |-> <<>>, Content |-> <<>>, UncompressedLength |-> 0]

\* data.IsCompressed(): the result (ok) and the data after the call, whose
\* empty ContentEncoding has become ceIdentity.
IsCompressed(data) ==
    LET d == IF data.ContentEncoding = <<>> THEN [data EXCEPT !.ContentEncoding = ceIdentity] ELSE data
    IN  [data |-> d, ok |-> d.ContentEncoding # ceIdentity]

\* data.Decompress(): the data after the call and the error returned.
Decompress(data) ==
    LET c == IsCompressed(data)
        read == IF c.data.ContentEncoding = ceDeflate THEN FlateRead(c.data.Content)
                ELSE IF c.data.ContentEncoding = ceGzip THEN GzipRead(c.data.Content)
                ELSE [b |-> <<>>, err |-> ErrUnknownEncoding]
    IN  IF ~c.ok THEN [data |-> c.data, err |-> NilError]
        ELSE IF read.err # NilError THEN [data |-> c.data, err |-> read.err]
        ELSE [data |-> [c.data EXCEPT !.Content = read.b, !.ContentEncoding = <<>>,
                                      !.UncompressedLength = Len(read.b)],
              err |-> NilError]

\* The Data values of the program: every content encoding with every content.
RawPayload == <<"h", "i">>
RawEncodings == {<<>>, ceIdentity, ceDeflate, ceGzip, ceBrotli}
RawContents ==
    {<<>>, RawPayload, FlateBytes(RawPayload), FlateBytes(<<>>), GzipBytes(RawPayload),
     <<"G", "{", "h">>}
RawDatas ==
    {[ContentType |-> StrTextPlain, ContentEncoding |-> e, Content |-> c, UncompressedLength |-> 0] :
        e \in RawEncodings, c \in RawContents}

\* The Accept-Encoding headers of the requests.
AcceptEncodings ==
    {<<>>, ceGzip, ceGzip \o <<",", " ">> \o ceDeflate, ceDeflate \o <<";", "q", "=", "0">>}

\* The response writers passed to WriteResponse: nothing is written yet, and
\* a Content-Encoding header may have been set before the call.
RawWriters ==
    {[NewSink(FALSE) EXCEPT !.header["Content-Encoding"] = ce] : ce \in {NoHeader, ceGzip}}

\* No call of WriteResponse yet: before is the data the call was made on, w0
\* the response writer as it was passed and w as the call left it.
NoWriteResponse ==
    [made |-> FALSE, before |-> ZeroData, ae |-> <<>>, w0 |-> NewSink(FALSE),
     w |-> NewSink(FALSE), err |-> NilError]

\* The number of WriteResponse calls on one Data.
MaxResponses == 2

\* A program that holds no Data.
RawStart == [data |-> ZeroData, calls |-> 0, last |-> NoWriteResponse]

\* The program before it has built any stack or handler.
InitBuild ==
    /\ stacks = <<>>
    /\ roots = {}
    /\ registry = [p \in {} |-> <<>>]
    /\ handlers = {}
    /\ req = [i \in Slots |-> IdleRequest]
    /\ sink = [i \in Slots |-> NewSink(FALSE)]
    /\ scope = [i \in Slots |-> NoScope]
    /\ watcher = [i \in Slots |-> "none"]
    /\ listener = [i \in Slots |-> NoListener]
    /\ conn = [i \in Slots |-> NoConn]
    /\ appDone = FALSE
    /\ served = 0
    /\ jsonErr = FALSE
    /\ logging = LogStart
    /\ environment = EnvStart
    /\ metrics = MetricsStart
    /\ raw = RawStart

\* The http.Handler that s.Handle(h) returns, with the history of s.
StackHandler(heap, s, order) ==
    [chain |-> ApplyStack(heap, s, <<Terminal>>), order |-> order, stack |-> s]
\* The http.Handler that Handle(h) returns for a handler no stack wraps.
PlainHandler == [chain |-> <<Terminal>>, order |-> <<>>, stack |-> NilStack]

\* A program at the end of its start-up, which has run
\*     public := Use(m1, nil, m2);  admin := Context(app).Use(m2)
\*     http.Handle(.., public.Handle(h)); http.Handle(.., admin.Handle(h));
\*     http.Handle(.., HandleFunc(h))
StartUp ==
    LET public == UseStack(<<>>, <<"m1", NilMiddleware, "m2">>)
        app == ContextStack(public.heap, AppContext)
        admin == StackUseStack(app.heap, app.top, <<"m2">>)
    IN  [stacks |-> admin.heap,
         roots |-> {public.top, app.top, admin.top},
         registry |-> (public.top :> History(Background, NilStack, <<"m1", "m2">>, <<"m1", "m2">>))
                      @@ (app.top :> History(AppContext, NilStack, <<>>, <<>>))
                      @@ (admin.top :> History(AppContext, app.top, <<"m2">>, <<"m2">>)),
         handlers |-> {StackHandler(admin.heap, public.top, <<"m1", "m2">>),
                       StackHandler(admin.heap, admin.top, <<"m2">>),
                       PlainHandler}]

\* The program when it starts to serve requests.
Init ==
    /\ stacks = StartUp.stacks
    /\ roots = StartUp.roots
    /\ registry = StartUp.registry
    /\ handlers = StartUp.handlers
    /\ req = [i \in Slots |-> IdleRequest]
    /\ sink = [i \in Slots |-> NewSink(FALSE)]
    /\ scope = [i \in Slots |-> NoScope]
    /\ watcher = [i \in Slots |-> "none"]
    /\ listener = [i \in Slots |-> NoListener]
    /\ conn = [i \in Slots |-> NoConn]
    /\ appDone = FALSE
    /\ served = 0
    /\ jsonErr = FALSE
    /\ logging = LogStart
    /\ environment = EnvStart
    /\ metrics = MetricsStart
    /\ raw = RawStart

\* ------------------------------------------------- building the handlers
\* The history of the stacks held after p is made.
Register(p, ctx, base, own, order) ==
    [q \in roots \cup {p} |-> IF q \in roots THEN registry[q] ELSE History(ctx, base, own, order)]

\* stack := Context(ctx)
Context ==
    \E ctx \in Contexts \cup {NilContext} :
        /\ Len(stacks) + 1 <= MaxNodes
        /\ \E n \in {ContextStack(stacks, ctx)} :
               /\ n.top \notin roots
               /\ stacks' = n.heap
               /\ roots' = roots \cup {n.top}
               /\ registry' = Register(n.top, IF ctx = NilContext THEN Background ELSE ctx,
                                        NilStack, <<>>, <<>>)
        /\ UNCHANGED <<handlers, serveVars, jsonErr, logging, environment, metrics, raw>>

\* stack := Use(f...)
Use ==
    /\ Len(stacks) + 1 <= MaxNodes
    /\ \E f \in ArgsWithin[MaxNodes - Len(stacks) - 1] :
        /\ \E n \in {UseStack(stacks, f)} :
               /\ n.top \notin roots
               /\ stacks' = n.heap
               /\ roots' = roots \cup {n.top}
               /\ registry' = Register(n.top, Background, NilStack, NonNil(f), NonNil(f))
        /\ UNCHANGED <<handlers, serveVars, jsonErr, logging, environment, metrics, raw>>

\* stack := s.Use(f...)
StackUse ==
    \E s \in roots, f \in ArgsWithin[MaxNodes - Len(stacks)] :
        /\ \E n \in {StackUseStack(stacks, s, f)} :
               /\ stacks' = n.heap
               /\ roots' = roots \cup {n.top}
               /\ registry' = Register(n.top, registry[s].ctx, s, NonNil(f),
                                        registry[s].order \o NonNil(f))
        /\ UNCHANGED <<handlers, serveVars, jsonErr, logging, environment, metrics, raw>>

\* A Stack.Handle that makes a context and starts its watcher while it
\* composes the handler, instead of leaving that to the first request.
StackHandleEager ==
    \E s \in roots :
        /\ Cardinality(handlers) < MaxHandlers
        /\ handlers' = handlers \cup {StackHandler(stacks, s, registry[s].order)}
        /\ handlers' # handlers
        /\ scope' = [i \in DOMAIN scope |-> newContext(registry[s].ctx, NewSink(TRUE), FALSE).scope]
        /\ watcher' = [i \in DOMAIN watcher |-> "select"]
        /\ UNCHANGED <<stacks, roots, registry, req, sink, listener, conn, appDone, served,
                       jsonErr, logging, environment, metrics, raw>>

\* s.Handle(h) / s.HandleFunc(f): the http.Handler of Handle around the
\* terminal handler wrapped by the middleware of s.
StackHandle ==
    \E s \in roots :
        /\ Cardinality(handlers) < MaxHandlers
        /\ handlers' = handlers \cup {StackHandler(stacks, s, registry[s].order)}
        /\ handlers' # handlers
        /\ UNCHANGED <<stacks, roots, registry, serveVars, jsonErr, logging, environment, metrics, raw>>

\* Handle(h) / HandleFunc(f) on a handler that no stack wraps.
Handle ==
    /\ Cardinality(handlers) < MaxHandlers
    /\ handlers' = handlers \cup {PlainHandler}
    /\ handlers' # handlers
    /\ UNCHANGED <<stacks, roots, registry, serveVars, jsonErr, logging, environment, metrics, raw>>

\* ------------------------------------------------------ serving a request
\* The transport calls ServeHTTP(w, r) of a handler built by Handle.
ServeHTTP(i) ==
    \E h \in handlers, r \in HttpRequests, cn \in BOOLEAN :
        /\ served < MaxServed
        /\ req[i].phase \in {"idle", "returned", "panicked"}
        /\ watcher[i] # "select"
        /\ listener[i].state # "blocked"
        /\ req' = [req EXCEPT ![i] = [IdleRequest EXCEPT !.phase = "down", !.handler = h, !.r = r]]
        /\ sink' = [sink EXCEPT ![i] = NewSink(cn)]
        /\ scope' = [scope EXCEPT ![i] = NoScope]
        /\ watcher' = [watcher EXCEPT ![i] = "none"]
        /\ listener' = [listener EXCEPT ![i] = NoListener]
        /\ conn' = [conn EXCEPT ![i] = NoConn]
        /\ served' = served + 1
        /\ UNCHANGED <<buildVars, jsonErr, logging, environment, appDone, metrics, raw>>

\* The layer the call of request i is about to enter.
NextLayer(i) == req[i].handler.chain[req[i].depth + 1]
\* The innermost layer entered and not yet left.
TopLayer(i) == req[i].handler.chain[req[i].depth]

Event(ev, layer, ctx) == [ev |-> ev, mw |-> layer.name, ctx |-> ctx]

\* The handler returned by the Context middleware is called: newContext.
EnterContext(i) ==
    /\ req[i].phase = "down"
    /\ NextLayer(i).kind = "context"
    /\ LET c == newContext(NextLayer(i).ctx, sink[i], ContextDone(NextLayer(i).ctx, appDone))
       IN  /\ scope' = [scope EXCEPT ![i] = c.scope]
           /\ watcher' = [watcher EXCEPT ![i] = c.watcher]
           /\ conn' = [conn EXCEPT ![i].acquired = c.acquired]
           /\ listener' = [listener EXCEPT ![i] = [state |-> "blocked", wakes |-> 0]]
    /\ req' = [req EXCEPT ![i].depth = @ + 1, ![i].ctx = "request",
                          ![i].trace = Append(@, Event("pre", NextLayer(i), req[i].ctx))]
    /\ UNCHANGED <<buildVars, jsonErr, logging, environment, sink, appDone, served, metrics, raw>>

\* A middleware of the program is called: it calls the next handler, or
\* returns without calling it (with an error or nil).
EnterMiddleware(i) ==
    /\ req[i].phase = "down"
    /\ NextLayer(i).kind = "user"
    /\ \E next \in BOOLEAN, e \in Errors \cup {NoError} :
        /\ next => e = NoError
        /\ req' = [req EXCEPT ![i].depth = @ + 1,
                              ![i].phase = IF next THEN "down" ELSE "up",
                              ![i].err = e,
                              ![i].trace = Append(@, Event("pre", NextLayer(i), req[i].ctx))]
    /\ UNCHANGED <<buildVars, jsonErr, logging, environment, sink, scope, watcher, listener, conn, appDone, served, metrics, raw>>

\* The terminal handler runs: it writes the response and returns nil,
\* returns an error having written nothing, or panics.
EnterTerminal(i) ==
    /\ req[i].phase = "down"
    /\ NextLayer(i).kind = "terminal"
    /\ \E out \in {"nil", "error", "panic"}, e \in Errors :
        /\ out # "error" => e = CHOOSE x \in Errors : TRUE
        /\ req' = [req EXCEPT ![i].phase = IF out = "panic" THEN "unwind" ELSE "up",
                              ![i].err = IF out = "error" THEN e ELSE NoError,
                              ![i].trace = Append(@, Event("serve", NextLayer(i), req[i].ctx))]
        /\ sink' = [sink EXCEPT ![i] =
                        IF out = "nil" THEN Write(@, <<"o", "k">>, "handler") ELSE @]
    /\ UNCHANGED <<buildVars, jsonErr, logging, environment, scope, watcher, listener, conn, appDone, served, metrics, raw>>

\* A middleware of the program returns to its caller.
LeaveMiddleware(i) ==
    /\ req[i].phase \in {"up", "unwind"}
    /\ req[i].depth > 0
    /\ TopLayer(i).kind = "user"
    /\ req' = [req EXCEPT ![i].depth = @ - 1,
                          ![i].trace = IF req[i].phase = "up"
                                       THEN Append(@, Event("post", TopLayer(i), req[i].ctx))
                                       ELSE @]
    /\ UNCHANGED <<buildVars, jsonErr, logging, environment, sink, scope, watcher, listener, conn, appDone, served, metrics, raw>>

\* A handler that does not call cancel when it returns.
DeferredCancelMissing(sc) == sc

\* A deferred call that closes the Done channel whatever its state.
DeferredCancelForce(sc) ==
    [sc EXCEPT !.done = TRUE, !.closes = @ + 1, !.calls = @ + 1]

\* The context of request i after the deferred cancel() of the Context
\* middleware.
DeferredCancel(sc) == cancelFunc(sc)

\* A Context middleware whose requests share one context made when the stack
\* was built: the deferred cancel() of one request cancels it for all.
LeaveContextShared(i) ==
    /\ req[i].phase \in {"up", "unwind"}
    /\ req[i].depth > 0
    /\ TopLayer(i).kind = "context"
    /\ scope' = [j \in DOMAIN scope |-> IF scope[j].made THEN DeferredCancel(scope[j]) ELSE scope[j]]
    /\ req' = [req EXCEPT ![i].depth = @ - 1, ![i].ctx = Background,
                          ![i].trace = IF req[i].phase = "up"
                                       THEN Append(@, Event("post", TopLayer(i), req[i].ctx))
                                       ELSE @]
    /\ UNCHANGED <<buildVars, jsonErr, logging, environment, sink, watcher, listener, conn, appDone, served, metrics, raw>>

\* The handler of the Context middleware returns: its deferred cancel() runs,
\* also when the handler below panicked.
LeaveContext(i) ==
    /\ req[i].phase \in {"up", "unwind"}
    /\ req[i].depth > 0
    /\ TopLayer(i).kind = "context"
    /\ scope' = [scope EXCEPT ![i] = DeferredCancel(@)]
    /\ req' = [req EXCEPT ![i].depth = @ - 1, ![i].ctx = Background,
                          ![i].trace = IF req[i].phase = "up"
                                       THEN Append(@, Event("post", TopLayer(i), req[i].ctx))
                                       ELSE @]
    /\ UNCHANGED <<buildVars, jsonErr, logging, environment, sink, watcher, listener, conn, appDone, served, metrics, raw>>

\* A Handle that sends the error without looking at it.
HandleErrorAlways(w, r, err) ==
    [w |-> sendError(w, r, err), calls |-> <<[r |-> r, err |-> err, w |-> w]>>]

\* "if err != nil { sendError(w, r, err) }" of Handle: the response writer
\* and the calls of sendError made.
HandleError(w, r, err) ==
    IF err.nil
    THEN [w |-> w, calls |-> <<>>]
    ELSE [w |-> sendError(w, r, err), calls |-> <<[r |-> r, err |-> err, w |-> w]>>]

\* h.ServeHTTPContext returned to the function of Handle, which sends the
\* error if there is one and returns; a panic goes on to the transport.
Return(i) ==
    /\ req[i].phase \in {"up", "unwind"}
    /\ req[i].depth = 0
    /\ IF req[i].phase = "unwind"
       THEN /\ req' = [req EXCEPT ![i].phase = "panicked"]
            /\ sink' = sink
       ELSE LET res == HandleError(sink[i], req[i].r, req[i].err)
            IN  /\ req' = [req EXCEPT ![i].phase = "returned", ![i].rendered = @ \o res.calls]
                /\ sink' = [sink EXCEPT ![i] = res.w]
    /\ UNCHANGED <<buildVars, jsonErr, logging, environment, scope, watcher, listener, conn, appDone, served, metrics, raw>>

\* The client closes the connection while the request is being processed;
\* the transport puts a value on the CloseNotify channel.
TransportClose(i) ==
    /\ req[i].phase \in {"down", "up", "unwind"}
    /\ ~conn[i].closed
    /\ conn' = [conn EXCEPT ![i].closed = TRUE]
    /\ UNCHANGED <<buildVars, jsonErr, logging, environment, req, sink, scope, watcher, listener, appDone, served, metrics, raw>>

\* A watcher that, besides cancelling the context, makes the handler in
\* progress return an error at once.
WatcherClosePreempt(i) ==
    /\ watcher[i] = "select"
    /\ "closeChan" \in WatcherCases(scope[i], conn[i])
    /\ conn' = [conn EXCEPT ![i].received = TRUE]
    /\ scope' = [scope EXCEPT ![i] = cancelFunc(@)]
    /\ watcher' = [watcher EXCEPT ![i] = "exited"]
    /\ req' = [req EXCEPT ![i].phase = IF @ = "down" THEN "up" ELSE @,
                          ![i].err = IF req[i].phase = "down" THEN CHOOSE e \in Errors : TRUE ELSE @]
    /\ UNCHANGED <<buildVars, jsonErr, logging, environment, sink, listener, appDone, served, metrics, raw>>

\* The watcher receives from closeChan and calls cancelFunc.
WatcherClose(i) ==
    /\ watcher[i] = "select"
    /\ "closeChan" \in WatcherCases(scope[i], conn[i])
    /\ conn' = [conn EXCEPT ![i].received = TRUE]
    /\ scope' = [scope EXCEPT ![i] = cancelFunc(@)]
    /\ watcher' = [watcher EXCEPT ![i] = "exited"]
    /\ UNCHANGED <<buildVars, jsonErr, logging, environment, req, sink, listener, appDone, served, metrics, raw>>

\* The watcher receives from ctx.Done() and returns.
WatcherDone(i) ==
    /\ watcher[i] = "select"
    /\ "ctx.Done" \in WatcherCases(scope[i], conn[i])
    /\ watcher' = [watcher EXCEPT ![i] = "exited"]
    /\ UNCHANGED <<buildVars, jsonErr, logging, environment, req, sink, scope, listener, conn, appDone, served, metrics, raw>>

\* A goroutine blocked on <-ctx.Done() of the request's context proceeds.
ListenerWake(i) ==
    /\ listener[i].state = "blocked"
    /\ scope[i].done
    /\ listener' = [listener EXCEPT ![i] = [state |-> "woken", wakes |-> @.wakes + 1]]
    /\ UNCHANGED <<buildVars, jsonErr, logging, environment, req, sink, scope, watcher, conn, appDone, served, metrics, raw>>

\* The main program cancels the application context.
CancelApp ==
    /\ ~appDone
    /\ appDone' = TRUE
    /\ scope' = [i \in DOMAIN scope |-> ParentCancelled(scope[i])]
    /\ UNCHANGED <<buildVars, jsonErr, logging, environment, req, sink, watcher, listener, conn, served, metrics, raw>>

\* The steps of a program that builds its stacks and handlers.
NextBuild ==
    \/ Context
    \/ Use
    \/ StackUse
    \/ StackHandle
    \/ Handle

\* The steps of a program that serves requests with the handlers it built.
Next ==
    \/ CancelApp
    \/ \E i \in Slots : ServeHTTP(i)
    \/ \E i \in Slots : EnterContext(i)
    \/ \E i \in Slots : EnterMiddleware(i)
    \/ \E i \in Slots : EnterTerminal(i)
    \/ \E i \in Slots : LeaveMiddleware(i)
    \/ \E i \in Slots : LeaveContext(i)
    \/ \E i \in Slots : Return(i)
    \/ \E i \in Slots : TransportClose(i)
    \/ \E i \in Slots : WatcherClose(i)
    \/ \E i \in Slots : WatcherDone(i)
    \/ \E i \in Slots : ListenerWake(i)

Spec == Init /\ [][Next]_vars

BuildSpec == InitBuild /\ [][NextBuild]_vars

\* The Go scheduler runs every goroutine that can run: the watcher whose
\* select has a ready case, and a goroutine whose receive from Done can proceed.
Fairness ==
    \A i \in Slots :
        /\ WF_vars(WatcherClose(i) \/ WatcherDone(i))
        /\ WF_vars(ListenerWake(i))

FairSpec == Spec /\ Fairness

\* ------------------------------------------------- concurrent requests
\* Two connections on which the transport serves requests at the same time,
\* each in a goroutine of its own.
Conns == {1, 2}

\* The transport has called ServeHTTP of one handler of a stack for a request
\* on each connection, and neither call has returned. Both requests accept
\* JSON and the response writer of the first connection is a CloseNotifier.
InitConcurrent ==
    /\ stacks = StartUp.stacks
    /\ roots = StartUp.roots
    /\ registry = StartUp.registry
    /\ handlers = StartUp.handlers
    /\ \E h \in {x \in StartUp.handlers : x.stack # NilStack /\ registry[x.stack].ctx = AppContext} :
       \E r \in {x \in HttpRequests : x.accept = StrJSON} :
           req = [i \in Conns |-> [IdleRequest EXCEPT !.phase = "down", !.handler = h, !.r = r]]
    /\ \E cn \in BOOLEAN : sink = [i \in Conns |-> NewSink(i = 1 \/ cn)]
    /\ scope = [i \in Conns |-> NoScope]
    /\ watcher = [i \in Conns |-> "none"]
    /\ listener = [i \in Conns |-> NoListener]
    /\ conn = [i \in Conns |-> NoConn]
    /\ appDone = FALSE
    /\ served = Cardinality(Conns)
    /\ jsonErr = FALSE
    /\ logging = LogStart
    /\ environment = EnvStart
    /\ metrics = MetricsStart
    /\ raw = RawStart

\* The steps of the goroutines of the two requests, in any interleaving.
NextConcurrent ==
    \/ CancelApp
    \/ \E i \in Conns : EnterContext(i)
    \/ \E i \in Conns : EnterMiddleware(i)
    \/ \E i \in Conns : EnterTerminal(i)
    \/ \E i \in Conns : LeaveMiddleware(i)
    \/ \E i \in Conns : LeaveContext(i)
    \/ \E i \in Conns : Return(i)
    \/ \E i \in Conns : TransportClose(i)
    \/ \E i \in Conns : WatcherClose(i)
    \/ \E i \in Conns : WatcherDone(i)
    \/ \E i \in Conns : ListenerWake(i)

ConcurrentSpec == InitConcurrent /\ [][NextConcurrent]_vars

\* ------------------------------------------------------ logging a warning
\* Options of one call.
MaxOpts == 2
OptLists == UNION {[1..n -> Options] : n \in 0..MaxOpts}
LogTexts == {<<"w">>}

\* A program that uses one of the revisions of package log.
InitLog ==
    /\ stacks = <<>>
    /\ roots = {}
    /\ registry = [p \in {} |-> <<>>]
    /\ handlers = {}
    /\ req = [i \in Slots |-> IdleRequest]
    /\ sink = [i \in Slots |-> NewSink(FALSE)]
    /\ scope = [i \in Slots |-> NoScope]
    /\ watcher = [i \in Slots |-> "none"]
    /\ listener = [i \in Slots |-> NoListener]
    /\ conn = [i \in Slots |-> NoConn]
    /\ appDone = FALSE
    /\ served = 0
    /\ jsonErr = FALSE
    /\ \E rev \in LogRevisions : logging = [LogStart EXCEPT !.rev = rev]
    /\ environment = EnvStart
    /\ metrics = MetricsStart
    /\ raw = RawStart

\* The program assigns MinSeverity.
SetMinSeverity ==
    \E s \in Severities :
        /\ logging' = [logging EXCEPT !.MinSeverity = s]
        /\ UNCHANGED <<buildVars, serveVars, jsonErr, environment, metrics, raw>>

\* The program assigns Print: a function, or nil.
SetPrint ==
    \E p \in BOOLEAN :
        /\ logging' = [logging EXCEPT !.printFn = p]
        /\ UNCHANGED <<buildVars, serveVars, jsonErr, environment, metrics, raw>>

\* Warn(text, opts...): builds the message, applies the options, prints it
\* if doPrint says so, and returns it.
Warn ==
    \E text \in LogTexts, opts \in OptLists :
        LET m == applyOpts(WarnMessage(logging.rev, text), opts)
        IN  /\ logging' = [logging EXCEPT !.call =
                    [fn |-> "Warn", opts |-> opts, m |-> m,
                     printed |-> doPrint(m, logging.printFn, logging.MinSeverity),
                     MinSeverity |-> logging.MinSeverity, printFn |-> logging.printFn]]
            /\ UNCHANGED <<buildVars, serveVars, jsonErr, environment, metrics, raw>>

NextLog == SetMinSeverity \/ SetPrint \/ Warn

LogSpec == InitLog /\ [][NextLog]_vars

\* ------------------------------------------------ setting the environment
\* Callbacks registered with WhenChanged.
MaxCallbacks == 2

\* Name(), IsProduction(), IsTest(), IsDevelopment(), CheckTest()
Name == environment.envname
IsProduction == environment.isProduction
IsTest == environment.isTest
IsDevelopment == environment.isDevelopment
CheckTest == IF ~environment.isTest THEN ErrNotTest ELSE NilError

\* A SetName that sets the flag of the prefix and leaves the other flags.
SetNameKeepFlags(name) ==
    LET e == environment
        set == IF HasPrefix(name, ProductionPrefix)
               THEN [e EXCEPT !.envname = name, !.isProduction = TRUE]
               ELSE IF HasPrefix(name, TestPrefix)
               THEN [e EXCEPT !.envname = name, !.isTest = TRUE]
               ELSE [e EXCEPT !.envname = name, !.isDevelopment = TRUE]
        valid == envPattern(name) /\ \E p \in {ProductionPrefix, TestPrefix, DevelopmentPrefix} : HasPrefix(name, p)
        failed == \E k \in 1..Len(e.callbacks) : e.callbacks[k]
        restored == [set EXCEPT !.envname = e.envname, !.isProduction = e.isProduction,
                                !.isTest = e.isTest, !.isDevelopment = e.isDevelopment]
    IN  /\ environment' =
               IF ~valid THEN [e EXCEPT !.last = [called |-> TRUE, name |-> name, err |-> ErrInvalidName]]
               ELSE IF failed THEN [restored EXCEPT !.last = [called |-> TRUE, name |-> name, err |-> ErrCallback]]
               ELSE [set EXCEPT !.last = [called |-> TRUE, name |-> name, err |-> NilError]]
        /\ UNCHANGED <<buildVars, serveVars, jsonErr, logging, metrics, raw>>

\* A SetName that returns the error of a callback without putting the
\* previous name and flags back.
SetNameNoRestore(name) ==
    LET e == environment
        set == IF HasPrefix(name, ProductionPrefix)
               THEN [e EXCEPT !.envname = name, !.isProduction = TRUE,
                              !.isTest = FALSE, !.isDevelopment = FALSE]
               ELSE IF HasPrefix(name, TestPrefix)
               THEN [e EXCEPT !.envname = name, !.isProduction = FALSE,
                              !.isTest = TRUE, !.isDevelopment = FALSE]
               ELSE [e EXCEPT !.envname = name, !.isProduction = FALSE,
                              !.isTest = FALSE, !.isDevelopment = TRUE]
        valid == envPattern(name) /\ \E p \in {ProductionPrefix, TestPrefix, DevelopmentPrefix} : HasPrefix(name, p)
        failed == \E k \in 1..Len(e.callbacks) : e.callbacks[k]
    IN  /\ environment' =
               IF ~valid THEN [e EXCEPT !.last = [called |-> TRUE, name |-> name, err |-> ErrInvalidName]]
               ELSE IF failed THEN [set EXCEPT !.last = [called |-> TRUE, name |-> name, err |-> ErrCallback]]
               ELSE [set EXCEPT !.last = [called |-> TRUE, name |-> name, err |-> NilError]]
        /\ UNCHANGED <<buildVars, serveVars, jsonErr, logging, metrics, raw>>

\* SetName(name): rejects a name that does not match envPattern or has none
\* of the prefixes; otherwise sets the name and the flags, calls the
\* callbacks, and puts the previous values back if one of them fails.
SetName(name) ==
    LET e == environment
        set == IF HasPrefix(name, ProductionPrefix)
               THEN [e EXCEPT !.envname = name, !.isProduction = TRUE,
                              !.isTest = FALSE, !.isDevelopment = FALSE]
               ELSE IF HasPrefix(name, TestPrefix)
               THEN [e EXCEPT !.envname = name, !.isProduction = FALSE,
                              !.isTest = TRUE, !.isDevelopment = FALSE]
               ELSE [e EXCEPT !.envname = name, !.isProduction = FALSE,
                              !.isTest = FALSE, !.isDevelopment = TRUE]
        valid == envPattern(name) /\ \E p \in {ProductionPrefix, TestPrefix, DevelopmentPrefix} : HasPrefix(name, p)
        failed == \E k \in 1..Len(e.callbacks) : e.callbacks[k]
        restored == [set EXCEPT !.envname = e.envname, !.isProduction = e.isProduction,
                                !.isTest = e.isTest, !.isDevelopment = e.isDevelopment]
    IN  /\ environment' =
               IF ~valid THEN [e EXCEPT !.last = [called |-> TRUE, name |-> name, err |-> ErrInvalidName]]
               ELSE IF failed THEN [restored EXCEPT !.last = [called |-> TRUE, name |-> name, err |-> ErrCallback]]
               ELSE [set EXCEPT !.last = [called |-> TRUE, name |-> name, err |-> NilError]]
        /\ UNCHANGED <<buildVars, serveVars, jsonErr, logging, metrics, raw>>

\* WhenChanged(callback): fails says whether the callback returns an error.
WhenChanged ==
    \E fails \in BOOLEAN :
        /\ Len(environment.callbacks) < MaxCallbacks
        /\ environment' = [environment EXCEPT !.callbacks = Append(@, fails)]
        /\ UNCHANGED <<buildVars, serveVars, jsonErr, logging, metrics, raw>>

NextEnv ==
    \/ \E name \in EnvNames : SetName(name)
    \/ WhenChanged

EnvSpec == InitBuild /\ [][NextEnv]_vars

\* ------------------------------------------------ counting the responses
\* Calls of WriteHeader and Write a handler makes on one responseWriter.
MaxWrites == 2

otherVars == <<buildVars, serveVars, jsonErr, logging, environment, raw>>

\* newResponseWriter(w)
newResponseWriter(i) ==
    /\ ~metrics.w[i].made
    /\ metrics' = [metrics EXCEPT !.w[i].made = TRUE]
    /\ UNCHANGED otherVars

\* A WriteHeader without the test of wroteHeader.
CallWriteHeaderAlways(i) ==
    \E status \in MetricStatuses :
        /\ metrics.w[i].made
        /\ metrics.w[i].pc = "idle"
        /\ metrics.w[i].calls < MaxWrites
        /\ metrics' = [metrics EXCEPT !.w[i].calls = @ + 1,
                                      !.w[i].status = status,
                                      !.w[i].inWrite = FALSE,
                                      !.w[i].wroteHeader = TRUE,
                                      !.w[i].pc = "addStatus"]
        /\ UNCHANGED otherVars

\* The handler calls w.WriteHeader(status): the test of wroteHeader.
CallWriteHeader(i) ==
    \E status \in MetricStatuses :
        /\ metrics.w[i].made
        /\ metrics.w[i].pc = "idle"
        /\ metrics.w[i].calls < MaxWrites
        /\ metrics' = [metrics EXCEPT !.w[i].calls = @ + 1,
                                      !.w[i].status = status,
                                      !.w[i].inWrite = FALSE,
                                      !.w[i].wroteHeader = TRUE,
                                      !.w[i].pc = IF metrics.w[i].wroteHeader
                                                  THEN "forward" ELSE "addStatus"]
        /\ UNCHANGED otherVars

\* The handler calls w.Write(b): WriteHeader(http.StatusOK) first when no
\* header was written.
CallWrite(i) ==
    /\ metrics.w[i].made
    /\ metrics.w[i].pc = "idle"
    /\ metrics.w[i].calls < MaxWrites
    /\ metrics' = IF metrics.w[i].wroteHeader
                  THEN [metrics EXCEPT !.w[i].calls = @ + 1, !.w[i].pc = "write"]
                  ELSE [metrics EXCEPT !.w[i].calls = @ + 1,
                                       !.w[i].status = StatusOK,
                                       !.w[i].inWrite = TRUE,
                                       !.w[i].wroteHeader = TRUE,
                                       !.w[i].pc = "addStatus"]
    /\ UNCHANGED otherVars

\* expvarStatusCodes.Add(key, 1) with key := strconv.Itoa(status)
AddStatus(i) ==
    /\ metrics.w[i].pc = "addStatus"
    /\ metrics' = [metrics EXCEPT !.responses = Add(@, Itoa(metrics.w[i].status), 1),
                                  !.w[i].counted = Append(@, Itoa(metrics.w[i].status)),
                                  !.w[i].pc = "addTotal"]
    /\ UNCHANGED otherVars

\* expvarStatusCodes.Add("total", 1) and the test of the status
AddTotal(i) ==
    /\ metrics.w[i].pc = "addTotal"
    /\ metrics' = [metrics EXCEPT !.responses = Add(@, StrTotal, 1),
                                  !.w[i].pc = IF CountsAsError(metrics.w[i].status)
                                              THEN "addError" ELSE "forward"]
    /\ UNCHANGED otherVars

\* expvarErrors.Add(key, 1)
AddError(i) ==
    /\ metrics.w[i].pc = "addError"
    /\ metrics' = [metrics EXCEPT !.errors = Add(@, Itoa(metrics.w[i].status), 1),
                                  !.w[i].pc = "addErrorTotal"]
    /\ UNCHANGED otherVars

\* expvarErrors.Add("total", 1)
AddErrorTotal(i) ==
    /\ metrics.w[i].pc = "addErrorTotal"
    /\ metrics' = [metrics EXCEPT !.errors = Add(@, StrTotal, 1),
                                  !.w[i].pc = "forward"]
    /\ UNCHANGED otherVars

\* w.responseWriter.WriteHeader(status)
Forward(i) ==
    /\ metrics.w[i].pc = "forward"
    /\ metrics' = [metrics EXCEPT !.w[i].responseWriter = WriteHeader(@, metrics.w[i].status, "responseWriter"),
                                  !.w[i].pc = IF metrics.w[i].inWrite THEN "write" ELSE "idle"]
    /\ UNCHANGED otherVars

\* return w.responseWriter.Write(b)
ForwardWrite(i) ==
    /\ metrics.w[i].pc = "write"
    /\ metrics' = [metrics EXCEPT !.w[i].responseWriter = Write(@, MetricBody, "responseWriter"),
                                  !.w[i].inWrite = FALSE,
                                  !.w[i].pc = "idle"]
    /\ UNCHANGED otherVars

NextMetrics ==
    \/ \E i \in MetricWriters : newResponseWriter(i)
    \/ \E i \in MetricWriters : CallWriteHeader(i)
    \/ \E i \in MetricWriters : CallWrite(i)
    \/ \E i \in MetricWriters : AddStatus(i)
    \/ \E i \in MetricWriters : AddTotal(i)
    \/ \E i \in MetricWriters : AddError(i)
    \/ \E i \in MetricWriters : AddErrorTotal(i)
    \/ \E i \in MetricWriters : Forward(i)
    \/ \E i \in MetricWriters : ForwardWrite(i)

MetricsSpec == InitBuild /\ [][NextMetrics]_vars

\* ------------------------------------------------- raw.Data.WriteResponse
\* w.Header().Set(name, value)
HeaderSet(w, name, value) == [w EXCEPT !.header[name] = value]

\* A WriteResponse that only sets Content-Encoding, without the else branch
\* that deletes it.
DataWriteResponseKeep(data, w, ae) ==
    LET c1 == IsCompressed(data)
        dc == IF c1.ok /\ ~Contains(ae, c1.data.ContentEncoding)
              THEN Decompress(c1.data)
              ELSE [data |-> c1.data, err |-> NilError]
        c2 == IsCompressed(dc.data)
        w1 == IF c2.ok THEN HeaderSet(w, "Content-Encoding", c2.data.ContentEncoding) ELSE w
        w2 == HeaderSet(w1, "Content-Type", c2.data.ContentType)
        w3 == HeaderSet(w2, "Content-Length", Itoa(Len(c2.data.Content)))
        e1 == HeaderSet(w, "Content-Length", <<"0">>)
        e2 == HeaderDel(HeaderDel(e1, "Content-Type"), "Content-Encoding")
    IN  IF dc.err # NilError THEN [data |-> dc.data, w |-> w, err |-> dc.err]
        ELSE IF Len(dc.data.Content) = 0
        THEN [data |-> dc.data, w |-> WriteHeader(e2, StatusNoContent, "raw"), err |-> NilError]
        ELSE [data |-> c2.data, w |-> Write(w3, c2.data.Content, "raw"), err |-> NilError]

\* data.WriteResponse(ctx, w, r) for a request whose Accept-Encoding header
\* is ae: the data and the response writer after the call, and the error
\* returned.
DataWriteResponse(data, w, ae) ==
    LET c1 == IsCompressed(data)
        dc == IF c1.ok /\ ~Contains(ae, c1.data.ContentEncoding)
              THEN Decompress(c1.data)
              ELSE [data |-> c1.data, err |-> NilError]
        c2 == IsCompressed(dc.data)
        w1 == IF c2.ok THEN HeaderSet(w, "Content-Encoding", c2.data.ContentEncoding)
              ELSE HeaderDel(w, "Content-Encoding")
        w2 == HeaderSet(w1, "Content-Type", c2.data.ContentType)
        w3 == HeaderSet(w2, "Content-Length", Itoa(Len(c2.data.Content)))
        e1 == HeaderSet(w, "Content-Length", <<"0">>)
        e2 == HeaderDel(HeaderDel(e1, "Content-Type"), "Content-Encoding")
    IN  IF dc.err # NilError THEN [data |-> dc.data, w |-> w, err |-> dc.err]
        ELSE IF Len(dc.data.Content) = 0
        THEN [data |-> dc.data, w |-> WriteHeader(e2, StatusNoContent, "raw"), err |-> NilError]
        ELSE [data |-> c2.data, w |-> Write(w3, c2.data.Content, "raw"), err |-> NilError]

\* A program that holds one Data value and has not written it yet.
InitRaw ==
    /\ stacks = <<>>
    /\ roots = {}
    /\ registry = [p \in {} |-> <<>>]
    /\ handlers = {}
    /\ req = [i \in Slots |-> IdleRequest]
    /\ sink = [i \in Slots |-> NewSink(FALSE)]
    /\ scope = [i \in Slots |-> NoScope]
    /\ watcher = [i \in Slots |-> "none"]
    /\ listener = [i \in Slots |-> NoListener]
    /\ conn = [i \in Slots |-> NoConn]
    /\ appDone = FALSE
    /\ served = 0
    /\ jsonErr = FALSE
    /\ logging = LogStart
    /\ environment = EnvStart
    /\ metrics = MetricsStart
    /\ \E d \in RawDatas : raw = [RawStart EXCEPT !.data = d]

\* A handler calls data.WriteResponse(ctx, w, r) with the response writer
\* and the request of one more request.
CallWriteResponse ==
    /\ raw.calls < MaxResponses
    /\ \E w \in RawWriters, ae \in AcceptEncodings :
        LET res == DataWriteResponse(raw.data, w, ae)
        IN  raw' = [data |-> res.data, calls |-> raw.calls + 1,
                    last |-> [made |-> TRUE, before |-> raw.data, ae |-> ae, w0 |-> w,
                              w |-> res.w, err |-> res.err]]
    /\ UNCHANGED <<buildVars, serveVars, jsonErr, logging, environment, metrics>>

NextRaw == CallWriteResponse

RawSpec == InitRaw /\ [][NextRaw]_vars

\* ------------------------------------------- rendering a returned error
\* Accept headers and URL paths of requests (TestShouldSendJSON and near
\* misses of its cases).
StrHtmlJSON == <<"t","e","x","t","/","h","t","m","l",",">> \o StrJSON
StrXML == <<"a","p","p","l","i","c","a","t","i","o","n","/","x","m","l">>
StrApiNoSlash == <<"/","a","p","i">>
StrApiUsers == StrApi \o <<"u","s","e","r","s">>
StrV1Api == <<"/","v","1">> \o StrApi
RenderAccepts == {StrEmpty, StrJSON, StrHtmlJSON, StrXML}
RenderPaths == {StrEmpty, StrRoot, StrApiNoSlash, StrApi, StrApiUsers, StrV1Api}
RenderRequests == {[accept |-> a, path |-> p] : a \in RenderAccepts, p \in RenderPaths}

\* Error values: the texts of TestSendError and one with characters the JSON
\* encoder escapes; the values of StatusCode() and of Code() when the error
\* has the method.
StrSomething == <<"s","o","m","e","t","h","i","n","g"," ","h","a","p","p","e","n","e","d">>
StrEscaped == <<"a", "\"", "<", "\\", "&", "\n", ">">>
RenderTexts == {StrEmpty, StrERR, StrSomething, StrEscaped}
StatusCodes == {0, 3, 200, 404, 500}
Codes == {StrEmpty, StrTeapot}
RenderErrors ==
    {[text |-> t, statusCoder |-> sc, status |-> st, coder |-> c, code |-> cd, nil |-> FALSE] :
        t \in RenderTexts, sc \in BOOLEAN, st \in StatusCodes, c \in BOOLEAN, cd \in Codes}
    \ {e \in [text : RenderTexts, statusCoder : BOOLEAN, status : StatusCodes,
                coder : BOOLEAN, code : Codes, nil : {FALSE}] :
           (~e.statusCoder /\ e.status # 0) \/ (~e.coder /\ e.code # StrEmpty)}

\* Headers set on w by the handler or a middleware before the error was
\* returned; nothing has been written on w.
StrGzip == <<"g","z","i","p">>
StrTextHtml == <<"t","e","x","t","/","h","t","m","l">>
UpstreamSinks ==
    {[NewSink(FALSE) EXCEPT !.header["Content-Encoding"] = ce, !.header["Content-Type"] = ct] :
        ce \in {NoHeader, StrGzip}, ct \in {NoHeader, StrTextHtml}}

\* The program at the point where the handler given to Handle has returned
\* the error e for the request r, with json.Marshal failing or not (fails).
Returned(fails) ==
    /\ stacks = StartUp.stacks
    /\ roots = StartUp.roots
    /\ registry = StartUp.registry
    /\ handlers = StartUp.handlers
    /\ \E r \in RenderRequests, e \in RenderErrors :
           req = [i \in Slots |-> [IdleRequest EXCEPT !.phase = "up", !.handler = PlainHandler,
                                                     !.r = r, !.err = e,
                                                     !.trace = <<Event("serve", Terminal, Background)>>]]
    /\ \E w \in UpstreamSinks : sink = [i \in Slots |-> w]
    /\ scope = [i \in Slots |-> NoScope]
    /\ watcher = [i \in Slots |-> "none"]
    /\ listener = [i \in Slots |-> NoListener]
    /\ conn = [i \in Slots |-> NoConn]
    /\ appDone = FALSE
    /\ served = 1
    /\ jsonErr \in fails
    /\ logging = LogStart
    /\ environment = EnvStart
    /\ metrics = MetricsStart
    /\ raw = RawStart

InitRender == Returned({FALSE})
InitMarshal == Returned(BOOLEAN)

\* The function of Handle goes on after the handler returned.
NextRender == \E i \in Slots : Return(i)

\* ----------------------------------------- newContext called on its own
\* The most calls of the cancel function and the longest time modelled.
MaxCalls == 2
MaxTicks == 2

\* The writers a caller passes to newContext: nil, a plain ResponseWriter and
\* one that is a CloseNotifier (fakeWriter).
Writers == {NilWriter, NewSink(FALSE), NewSink(TRUE)}

\* ctx, cancelFunc := newContext(ctx, w, r), followed by a goroutine that
\* waits on ctx.Done(): the caller's arguments may be nil.
NewContextCall(i) ==
    \E ctx \in Contexts \cup {NilContext}, w \in Writers :
        /\ ~scope[i].made
        /\ req[i].phase = "idle"
        /\ LET c == newContext(ctx, w, ContextDone(ctx, appDone))
           IN  /\ scope' = [scope EXCEPT ![i] = c.scope]
               /\ watcher' = [watcher EXCEPT ![i] = c.watcher]
               /\ conn' = [conn EXCEPT ![i].acquired = c.acquired]
        /\ sink' = [sink EXCEPT ![i] = w]
        /\ req' = [req EXCEPT ![i].ctx = ctx]
        /\ listener' = [listener EXCEPT ![i] = [state |-> "blocked", wakes |-> 0]]
        /\ UNCHANGED <<buildVars, jsonErr, logging, environment, appDone, served, metrics, raw>>

\* The caller calls the cancel function it was given.
CancelCall(i) ==
    /\ scope[i].made
    /\ req[i].phase = "idle"
    /\ scope[i].calls < MaxCalls
    /\ scope' = [scope EXCEPT ![i] = cancelFunc(@)]
    /\ UNCHANGED <<buildVars, jsonErr, logging, environment, req, sink, watcher, listener, conn, appDone, served, metrics, raw>>

\* fw.CloseNotifyChan <- true: the connection of w is reported closed.
CloseNotify(i) ==
    /\ scope[i].made
    /\ req[i].phase = "idle"
    /\ sink[i] # NilWriter
    /\ ~conn[i].closed
    /\ conn' = [conn EXCEPT ![i].closed = TRUE]
    /\ UNCHANGED <<buildVars, jsonErr, logging, environment, req, sink, scope, watcher, listener, appDone, served, metrics, raw>>

\* Time passes while the context is in use.
Tick(i) ==
    /\ scope[i].made
    /\ scope[i].elapsed < MaxTicks
    /\ scope' = [scope EXCEPT ![i] = Elapse(@)]
    /\ UNCHANGED <<buildVars, jsonErr, logging, environment, req, sink, watcher, listener, conn, appDone, served, metrics, raw>>

NextContext ==
    \/ CancelApp
    \/ \E i \in Slots : NewContextCall(i)
    \/ \E i \in Slots : CancelCall(i)
    \/ \E i \in Slots : CloseNotify(i)
    \/ \E i \in Slots : Tick(i)
    \/ \E i \in Slots : WatcherClose(i)
    \/ \E i \in Slots : WatcherDone(i)
    \/ \E i \in Slots : ListenerWake(i)

\* newContext used as its tests use it.
ContextSpec == InitBuild /\ [][NextContext]_vars

\* sendError on the errors a handler can return.
RenderSpec == InitRender /\ [][NextRender]_vars

\* sendError with json.Marshal taken by its signature: it may return an error.
MarshalSpec == InitMarshal /\ [][NextRender]_vars

\* ------------------------------------------------------------ properties
Reverse(q) == [k \in 1..Len(q) |-> q[Len(q) + 1 - k]]
IsPrefix(p, q) == Len(p) <= Len(q) /\ SubSeq(q, 1, Len(p)) = p
RECURSIVE SelectEv(_, _)
SelectEv(trace, ev) ==
    IF trace = <<>> THEN <<>>
    ELSE (IF Head(trace).ev = ev THEN <<Head(trace).mw>> ELSE <<>>) \o SelectEv(Tail(trace), ev)
Names(trace) == [k \in 1..Len(trace) |-> <<trace[k].ev, trace[k].mw>>]
PreOf(order) == [k \in 1..Len(order) |-> <<"pre", order[k]>>]
PostOf(order) == [k \in 1..Len(order) |-> <<"post", order[k]>>]
\* The onion of a stack on which order was registered.
Onion(order) ==
    <<(<<"pre", "context">>)>> \o PreOf(order) \o <<(<<"serve", "h">>)>>
    \o PostOf(Reverse(order)) \o <<(<<"post", "context">>)>>
Served(i) == \E k \in 1..Len(req[i].trace) : req[i].trace[k].ev = "serve"
FromStack(i) == req[i].phase # "idle" /\ req[i].handler.stack # NilStack

\* C1: a request served by the handler of a stack runs the middleware in the
\* order they were registered: the pre-logic of the layers entered so far is
\* a prefix of context, m1, .., mn, the post-logic runs in the reverse order
\* of the pre-logic, and a request whose every layer called the next one and
\* which returned has run exactly pre m1 .. pre mn, the terminal handler,
\* post mn .. post m1 (inside the context middleware).
C1_OnionOrder ==
    \A i \in Slots :
        FromStack(i) =>
            /\ IsPrefix(SelectEv(req[i].trace, "pre"), <<"context">> \o req[i].handler.order)
            /\ IsPrefix(SelectEv(req[i].trace, "post"), Reverse(SelectEv(req[i].trace, "pre")))
            /\ Served(i) /\ req[i].phase = "returned"
                   => Names(req[i].trace) = Onion(req[i].handler.order)

\* A request through Use(m1, m2).Handle(h) has returned, every layer having
\* called the next.
C1_Witness ==
    \E i \in Slots :
        /\ req[i].phase = "returned"
        /\ req[i].handler.order = <<"m1", "m2">>
        /\ Names(req[i].trace) = <<(<<"pre", "context">>), <<"pre", "m1">>, <<"pre", "m2">>,
                                   <<"serve", "h">>, <<"post", "m2">>, <<"post", "m1">>,
                                   <<"post", "context">>>>

\* The middleware of stack s, as Stack.Handle finds them.
Layers(heap, s) == ApplyStack(heap, s, <<>>)
MiddlewareOf(order) == [k \in 1..Len(order) |-> UserMiddleware(order[k])]

\* C2: no step of the program (in particular no Use on a stack, or on one
\* derived from it) changes a stack the program holds: its node is the same
\* after the step as before, and so is the handler Stack.Handle composes
\* from it, which has the middleware the stack had before and no other.
C2_UseDoesNotMutate ==
    [][\A s \in roots :
          /\ stacks'[s] = stacks[s]
          /\ ApplyStack(stacks', s, <<Terminal>>) = ApplyStack(stacks, s, <<Terminal>>)]_vars

\* s2 = s.Use(m) was called on a stack s, and a handler composed from s is
\* in use.
C2_Witness ==
    \E s \in roots, t \in roots :
        /\ registry[t].base = s
        /\ registry[t].own # <<>>
        /\ \E h \in handlers : h.stack = s /\ Len(h.chain) = Len(registry[s].order) + 2

\* C3: a stack derived from a base stack runs the middleware of the base,
\* in the base's order, before the middleware given to the deriving call, in
\* the order given; this holds of every stack held in every state, so
\* deriving one stack changes neither the base nor the other derived stacks.
C3_DerivedKeepsPrefix ==
    \A t \in roots :
        /\ registry[t].base # NilStack =>
               /\ registry[t].base \in roots
               /\ Layers(stacks, t) = Layers(stacks, registry[t].base) \o MiddlewareOf(registry[t].own)
        /\ registry[t].base = NilStack =>
               Layers(stacks, t) = <<ContextMiddleware(registry[t].ctx)>> \o MiddlewareOf(registry[t].own)

\* Two different stacks were derived from one base that has middleware.
C3_Witness ==
    \E s \in roots, a \in roots, b \in roots :
        /\ registry[s].order # <<>>
        /\ registry[a].base = s /\ registry[b].base = s
        /\ registry[a].own # <<>> /\ registry[b].own # <<>>
        /\ registry[a].own # registry[b].own

\* The Done channel of a context was closed at most once, and the context
\* is done exactly when it was closed.
FiredOnce(sc) == sc.closes <= 1 /\ (sc.done <=> sc.closes = 1)

\* C4: once the cancel function of a request's context has been called, or
\* the transport has put the close notification on the channel the watcher
\* of the request holds, the goroutine blocked on <-ctx.Done() proceeds.
C4_DoneEventuallyObserved ==
    \A i \in Slots :
        (scope[i].made /\ (scope[i].calls > 0 \/ (conn[i].closed /\ conn[i].acquired)))
            ~> (listener[i].state = "woken")

\* The listener proceeded on a close notification while the handler was
\* still running.
C4_Witness ==
    \E i \in Slots :
        /\ conn[i].received
        /\ scope[i].calls = 1
        /\ req[i].phase = "down"
        /\ listener[i].state = "woken"

\* C5: within one request the Done channel is closed at most once, a context
\* that is done stays done with the same single close, and the listener
\* proceeds at most once and then stays as it is.
C5_FiresExactlyOnce ==
    [][\A i \in Slots :
          served' = served =>
              /\ FiredOnce(scope[i]) /\ FiredOnce(scope'[i])
              /\ scope[i].done => scope'[i].done /\ scope'[i].closes = scope[i].closes
              /\ listener'[i].wakes <= 1
              /\ listener[i].state = "woken" => listener'[i] = listener[i]]_vars

\* The watcher (on a close notification) and the deferred cancel both called
\* the cancel function, and the listener proceeded.
C5_Witness ==
    \E i \in Slots :
        /\ conn[i].received
        /\ scope[i].calls = 2
        /\ scope[i].closes = 1
        /\ listener[i] = [state |-> "woken", wakes |-> 1]

\* C6: a call of the cancel function on a context that is already done
\* changes nothing but the count of calls: Done is not closed again, the
\* listener is not touched, and the caller goes on as it was (a returning
\* handler returns, an unwinding panic unwinds; the call starts no panic).
C6_ReleaseIdempotent ==
    [][\A i \in Slots :
          scope[i].done /\ scope'[i].calls > scope[i].calls =>
              /\ scope'[i] = [scope[i] EXCEPT !.calls = @ + 1]
              /\ listener'[i] = listener[i]
              /\ req'[i].phase = req[i].phase]_vars

\* cancel was called after the watcher had cancelled the context on a close
\* notification, and the request returned.
C6_Witness ==
    \E i \in Slots :
        /\ conn[i].received
        /\ scope[i].calls >= 2
        /\ req[i].phase = "returned"

\* C7: once the cancel function of a request's context has been called, the
\* watcher of the request leaves its select.
C7_WatcherTerminates ==
    \A i \in Slots : (scope[i].made /\ scope[i].calls > 0) ~> (watcher[i] # "select")

\* A watcher returned on ctx.Done() after the release, no close notification
\* having arrived.
C7_Witness ==
    \E i \in Slots :
        /\ watcher[i] = "exited"
        /\ ~conn[i].closed
        /\ scope[i].calls = 1
        /\ req[i].phase = "returned"

\* C8: when the function of Handle has returned (or a panic has left it) for
\* a request served by the handler of a stack, the cancel function of the
\* request's context has been called and the context is done.
C8_ReleasedOnReturn ==
    \A i \in Slots :
        FromStack(i) /\ req[i].phase \in {"returned", "panicked"} =>
            /\ scope[i].made
            /\ scope[i].calls >= 1
            /\ scope[i].done

\* A request whose handler returned an error has returned, the connection
\* still open.
C8_Witness ==
    \E i \in Slots :
        /\ FromStack(i)
        /\ req[i].phase = "returned"
        /\ ~req[i].err.nil
        /\ ~conn[i].closed
        /\ scope[i].done

BySendError(w) == {k \in 1..Len(w.log) : w.log[k].by = "sendError"}

\* C9: the function of Handle calls sendError once, with its own w and r and
\* the error the handler returned, when that error is not nil, and the
\* response is what sendError wrote; before the handler returns, after a
\* panic, and when the handler returns nil, sendError is not called and
\* nothing but the handler has written to w.
C9_RenderOnFailureOnly ==
    \A i \in Slots :
        /\ req[i].phase \in {"down", "up", "unwind", "panicked"} \/ req[i].err.nil =>
               /\ req[i].rendered = <<>>
               /\ BySendError(sink[i]) = {}
        /\ req[i].phase = "returned" /\ ~req[i].err.nil =>
               /\ Len(req[i].rendered) = 1
               /\ req[i].rendered[1].r = req[i].r
               /\ req[i].rendered[1].err = req[i].err
               /\ BySendError(req[i].rendered[1].w) = {}
               /\ sink[i] = sendError(req[i].rendered[1].w, req[i].r, req[i].err)
               /\ BySendError(sink[i]) # {}

\* A request whose handler returned an error has returned and the error was
\* sent as JSON.
C9_Witness ==
    \E i \in Slots :
        /\ req[i].phase = "returned"
        /\ ~req[i].err.nil
        /\ Len(req[i].rendered) = 1
        /\ sink[i].header["Content-Type"] = StrJSON

\* C10: every terminal handler that runs, also one given to Handle or
\* HandleFunc without a stack, is called with a context made by newContext
\* for the request (one that is cancelled when the transport reports the
\* connection closed).
C10_EveryHandlerGetsScope ==
    \A i \in Slots :
        \A k \in 1..Len(req[i].trace) :
            req[i].trace[k].ev = "serve" =>
                /\ req[i].trace[k].ctx = "request"
                /\ scope[i].made

\* The deferred cancel() of the Context middleware of request i has run: the
\* middleware made the context and its handler has returned.
Released(i) == scope[i].made /\ req[i].depth = 0 /\ req[i].phase \in {"up", "returned"}

\* C11: on the failure path of a request, the release of its scope never
\* precedes the rendering of its failure: when the deferred cancel() of the
\* request has run and the handler returned an error, sendError has already
\* written the response.
C11_RenderBeforeRelease ==
    \A i \in Slots :
        Released(i) /\ ~req[i].err.nil =>
            /\ req[i].rendered # <<>>
            /\ BySendError(sink[i]) # {}

\* ------------------------------------------------- what the client reads
\* The handler of request i returned an error and Handle has returned.
Rendered(i) == req[i].phase = "returned" /\ ~req[i].err.nil

\* The bytes of the response body, in the order written.
RECURSIVE Concat(_)
Concat(chunks) == IF chunks = <<>> THEN <<>> ELSE Head(chunks) \o Concat(Tail(chunks))
BodyBytes(w) == Concat(w.body)

\* The calls sendError made on w, in order.
CallsBySendError(w) == SelectSeq(w.log, LAMBDA c : c.by = "sendError")

\* C12: the status code rendered for a failure is 500 when the error has no
\* StatusCode method or the method returns 0, and otherwise the value the
\* method returns: it is the status sendError passes to WriteHeader and the
\* status of the response.
C12_StatusCode ==
    \A i \in Slots :
        Rendered(i) =>
            LET e == req[i].err
                want == IF ~e.statusCoder \/ e.status = 0 THEN 500 ELSE e.status
                heads == SelectSeq(CallsBySendError(sink[i]), LAMBDA c : c.op = "WriteHeader")
            IN  /\ sink[i].status = want
                /\ Len(heads) = 1
                /\ heads[1].status = want

\* An error that declares status 3 has been rendered with status 3, and so
\* has one that declares 0 with status 500.
C12_Witness ==
    \E i \in Slots :
        /\ Rendered(i)
        /\ req[i].err.statusCoder
        /\ \/ req[i].err.status = 3 /\ sink[i].status = 3
           \/ req[i].err.status = 0 /\ sink[i].status = 500

\* A JSON document read back, as a client reads the body: objects with
\* string keys whose values are strings, numbers or objects.
NoValue == [kind |-> "none", str |-> <<>>, num |-> 0, members |-> <<>>]
Failed == [ok |-> FALSE, val |-> NoValue, next |-> 0]
DigitChars == <<"0", "1", "2", "3", "4", "5", "6", "7", "8", "9">>
IsDigit(c) == \E d \in 1..10 : DigitChars[d] = c
DigitValue(c) == (CHOOSE d \in 1..10 : DigitChars[d] = c) - 1

\* The character a \u escape stands for (the escapes of <, > and &).
Unescaped(hex) ==
    CASE hex = <<"0", "0", "3", "c">> -> <<"<">>
      [] hex = <<"0", "0", "3", "e">> -> <<">">>
      [] hex = <<"0", "0", "2", "6">> -> <<"&">>
      [] OTHER -> <<>>

\* Reads a string whose opening quote is before position i.
RECURSIVE ScanString(_, _, _)
ScanString(b, i, acc) ==
    IF i > Len(b) THEN Failed
    ELSE IF b[i] = "\"" THEN [ok |-> TRUE, val |-> [NoValue EXCEPT !.kind = "string", !.str = acc], next |-> i + 1]
    ELSE IF b[i] = "\n" THEN Failed
    ELSE IF b[i] # "\\" THEN ScanString(b, i + 1, Append(acc, b[i]))
    ELSE IF i + 1 > Len(b) THEN Failed
    ELSE IF b[i + 1] \in {"\"", "\\"} THEN ScanString(b, i + 2, Append(acc, b[i + 1]))
    ELSE IF b[i + 1] = "n" THEN ScanString(b, i + 2, Append(acc, "\n"))
    ELSE IF b[i + 1] = "u" /\ i + 5 <= Len(b) /\ Unescaped(SubSeq(b, i + 2, i + 5)) # <<>>
         THEN ScanString(b, i + 6, acc \o Unescaped(SubSeq(b, i + 2, i + 5)))
    ELSE Failed

\* Reads the digits of a number from position i.
RECURSIVE ScanNumber(_, _, _)
ScanNumber(b, i, acc) ==
    IF i <= Len(b) /\ IsDigit(b[i])
    THEN ScanNumber(b, i + 1, 10 * acc + DigitValue(b[i]))
    ELSE [ok |-> TRUE, val |-> [NoValue EXCEPT !.kind = "number", !.num = acc], next |-> i]

RECURSIVE ScanValue(_, _)
RECURSIVE ScanMembers(_, _, _)
\* Reads "key":value pairs up to the closing brace, from position i.
ScanMembers(b, i, acc) ==
    IF i > Len(b) \/ b[i] # "\"" THEN Failed
    ELSE LET k == ScanString(b, i + 1, <<>>)
         IN  IF ~k.ok \/ k.next > Len(b) \/ b[k.next] # ":" THEN Failed
             ELSE LET v == ScanValue(b, k.next + 1)
                      all == Append(acc, [key |-> k.val.str, value |-> v.val])
                  IN  IF ~v.ok \/ v.next > Len(b) THEN Failed
                      ELSE IF b[v.next] = "," THEN ScanMembers(b, v.next + 1, all)
                      ELSE IF b[v.next] = "}"
                           THEN [ok |-> TRUE, val |-> [NoValue EXCEPT !.kind = "object", !.members = all],
                                 next |-> v.next + 1]
                      ELSE Failed

\* Reads the value that starts at position i.
ScanValue(b, i) ==
    IF i > Len(b) THEN Failed
    ELSE IF b[i] = "\"" THEN ScanString(b, i + 1, <<>>)
    ELSE IF IsDigit(b[i]) THEN ScanNumber(b, i, 0)
    ELSE IF b[i] # "{" THEN Failed
    ELSE IF i + 1 <= Len(b) /\ b[i + 1] = "}"
         THEN [ok |-> TRUE, val |-> [NoValue EXCEPT !.kind = "object"], next |-> i + 2]
    ELSE ScanMembers(b, i + 1, <<>>)

\* The document b holds, when b is one JSON value and nothing else.
Unmarshal(b) ==
    LET v == ScanValue(b, 1)
    IN  IF v.ok /\ v.next = Len(b) + 1 THEN v.val ELSE NoValue

\* The keys of an object and the value under a key.
Keys(obj) == {obj.members[k].key : k \in 1..Len(obj.members)}
Field(obj, key) ==
    IF key \in Keys(obj)
    THEN obj.members[CHOOSE k \in 1..Len(obj.members) : obj.members[k].key = key].value
    ELSE NoValue

KeyError == <<"e","r","r","o","r">>
KeyMessage == <<"m","e","s","s","a","g","e">>
KeyStatus == <<"s","t","a","t","u","s">>
KeyCode == <<"c","o","d","e">>

\* The object under "error" of the envelope in the body of w (NoValue when
\* the body is not an envelope).
Envelope(w) ==
    LET doc == Unmarshal(BodyBytes(w))
    IN  IF doc.kind = "object" /\ Keys(doc) = {KeyError} /\ Len(doc.members) = 1
           /\ Field(doc, KeyError).kind = "object"
        THEN Field(doc, KeyError)
        ELSE NoValue

\* The response the client got is the JSON representation / the plain text
\* representation of the error err.
IsJSON(w) ==
    /\ w.sent["Content-Type"] = StrJSON
    /\ Envelope(w).kind = "object"
IsPlainText(w, err) ==
    /\ w.sent["Content-Type"] = StrTextPlain
    /\ BodyBytes(w) = err.text \o <<"\n">>

\* s has the characters of t from position off + 1 on.
HasAt(s, t, off) == \A k \in 1..Len(t) : off + k <= Len(s) /\ s[off + k] = t[k]

RenderedJSON(i) == Rendered(i) /\ shouldSendJSON(req[i].r)

\* C14 as claimed: under JSON rendering the envelope has a "code" field
\* exactly when the error has a Code method, and then its value is the string
\* the method returns.
C14_CodeWhenCapable ==
    \A i \in Slots :
        RenderedJSON(i) =>
            /\ (KeyCode \in Keys(Envelope(sink[i]))) = req[i].err.coder
            /\ req[i].err.coder =>
                   Field(Envelope(sink[i]), KeyCode) = [NoValue EXCEPT !.kind = "string", !.str = req[i].err.code]

\* C14: under JSON rendering the envelope has a "code" field exactly when
\* the error has a Code method that returns a non-empty string, and then its
\* value is that string; an error without the method, or whose method
\* returns "", yields an envelope with no "code" field at all.
C14_CodeWhenNonEmpty ==
    \A i \in Slots :
        RenderedJSON(i) =>
            LET e == req[i].err
                env == Envelope(sink[i])
            IN  /\ env.kind = "object"
                /\ (KeyCode \in Keys(env)) = (e.coder /\ e.code # StrEmpty)
                /\ KeyCode \in Keys(env) =>
                       Field(env, KeyCode) = [NoValue EXCEPT !.kind = "string", !.str = e.code]
                /\ KeyCode \notin Keys(env) => Keys(env) = {KeyMessage, KeyStatus}

\* The error HTTPErrorCode{StatusCode: "418 I'm not a Teapot"} was sent as
\* JSON with that code, and an error without a Code method without the field.
C14_Witness ==
    \E i \in Slots :
        /\ RenderedJSON(i)
        /\ req[i].err.coder
        /\ req[i].err.code = StrTeapot
        /\ Field(Envelope(sink[i]), KeyCode).str = StrTeapot

\* C15: under JSON rendering the body is the envelope
\* {"error": {"message": M, "status": S, ...}}, where M is err.Error() and S
\* is the status code of the status line, with no other field than "code",
\* and the headers sent are Content-Type: application/json and
\* X-Content-Type-Options: nosniff.
C15_Envelope ==
    \A i \in Slots :
        RenderedJSON(i) =>
            LET env == Envelope(sink[i])
            IN  /\ env.kind = "object"
                /\ {KeyMessage, KeyStatus} \subseteq Keys(env)
                /\ Keys(env) \subseteq {KeyMessage, KeyStatus, KeyCode}
                /\ Len(env.members) = Cardinality(Keys(env))
                /\ Field(env, KeyMessage) = [NoValue EXCEPT !.kind = "string", !.str = req[i].err.text]
                /\ Field(env, KeyStatus) = [NoValue EXCEPT !.kind = "number", !.num = sink[i].status]
                /\ sink[i].sent["Content-Type"] = StrJSON
                /\ sink[i].sent["X-Content-Type-Options"] = StrNosniff

\* The body TestSendError expects for HTTPErrorCode{Err: fmt.Errorf("something
\* happened"), StatusCode: "418 I'm not a Teapot"}.
TeapotBody ==
    <<"{", "\"", "e", "r", "r", "o", "r", "\"", ":", "{", "\"", "c", "o", "d", "e", "\"", ":",
      "\"", "4", "1", "8", " ", "I", "'", "m", " ", "n", "o", "t", " ", "a", " ", "T", "e",
      "a", "p", "o", "t", "\"", ",", "\"", "m", "e", "s", "s", "a", "g", "e", "\"", ":", "\"",
      "s", "o", "m", "e", "t", "h", "i", "n", "g", " ", "h", "a", "p", "p", "e", "n", "e",
      "d", "\"", ",", "\"", "s", "t", "a", "t", "u", "s", "\"", ":", "5", "0", "0", "}", "}">>

\* That error was sent as JSON with status 500 and the body the test expects.
C15_Witness ==
    \E i \in Slots :
        /\ RenderedJSON(i)
        /\ req[i].err.text = StrSomething
        /\ req[i].err.code = StrTeapot
        /\ sink[i].status = 500
        /\ BodyBytes(sink[i]) = TeapotBody

\* The number a header value holds (-1 when it is not a number).
HeaderNumber(value) ==
    LET v == Unmarshal(value)
    IN  IF v.kind = "number" THEN v.num ELSE -1

\* The bytes sendError passed to Write on w.
WrittenBySendError(w) ==
    Concat([k \in 1..Len(CallsBySendError(w)) |-> CallsBySendError(w)[k].b])

\* C16: under JSON rendering the Content-Length header sent is the number
\* of body bytes written to w, which is 0 when json.Marshal returned an
\* error and no body is written.
C16_ContentLength ==
    \A i \in Slots :
        RenderedJSON(i) =>
            /\ HeaderNumber(sink[i].sent["Content-Length"]) = Len(BodyBytes(sink[i]))
            /\ BodyBytes(sink[i]) = WrittenBySendError(sink[i])
            /\ jsonErr =>
                   /\ sink[i].sent["Content-Length"] = <<"0">>
                   /\ BodyBytes(sink[i]) = <<>>
            /\ ~jsonErr => BodyBytes(sink[i]) # <<>>

\* An envelope has been sent with the Content-Length of its bytes.
C16_Witness ==
    \E i \in Slots :
        /\ RenderedJSON(i)
        /\ BodyBytes(sink[i]) = TeapotBody
        /\ HeaderNumber(sink[i].sent["Content-Length"]) = Len(TeapotBody)
        /\ Len(TeapotBody) > 0

\* C17: after sendError, in the JSON and in the plain text representation,
\* the response has no Content-Encoding header, whatever the header was
\* before the call: neither the header map nor the headers sent hold one.
C17_NoContentEncoding ==
    \A i \in Slots :
        Rendered(i) =>
            /\ sink[i].header["Content-Encoding"] = NoHeader
            /\ sink[i].sent["Content-Encoding"] = NoHeader
            /\ IsJSON(sink[i]) \/ IsPlainText(sink[i], req[i].err)

\* An error has been sent as plain text on a response whose
\* Content-Encoding was gzip when sendError was called.
C17_Witness ==
    \E i \in Slots :
        /\ Rendered(i)
        /\ req[i].rendered[1].w.header["Content-Encoding"] = StrGzip
        /\ IsPlainText(sink[i], req[i].err)
        /\ sink[i].sent["Content-Encoding"] = NoHeader

\* C18: when json.Marshal returns an error, sendError still writes the
\* status line with the status code it determined and writes no body, and
\* the error of the encoder goes no further: sendError and the function of
\* Handle return normally, and the error the handler returned is unchanged.
C18_MarshalFailure ==
    \A i \in Slots :
        RenderedJSON(i) /\ jsonErr =>
            LET e == req[i].err
                want == IF e.statusCoder /\ e.status # 0 THEN e.status ELSE 500
            IN  /\ CallsBySendError(sink[i]) =
                       <<[op |-> "WriteHeader", by |-> "sendError", status |-> want, b |-> <<>>]>>
                /\ sink[i].status = want
                /\ sink[i].body = <<>>
                /\ req[i].phase = "returned"
                /\ req[i].rendered[1].err = e

\* A JSON rendering in which json.Marshal failed has sent status 404 and no
\* body.
C18_Witness ==
    \E i \in Slots :
        /\ RenderedJSON(i)
        /\ jsonErr
        /\ req[i].err.status = 404
        /\ sink[i].status = 404
        /\ sink[i].body = <<>>

\* C19: one call of sendError writes the status line exactly once and the
\* body at most once, the status line first, and sets no header after the
\* status line, on every branch: JSON, JSON when json.Marshal failed (no
\* body), and plain text.
C19_WritesOnce ==
    \A i \in Slots :
        Rendered(i) =>
            LET calls == CallsBySendError(sink[i])
            IN  /\ Len(req[i].rendered) = 1
                /\ BySendError(req[i].rendered[1].w) = {}
                /\ Len(calls) \in {1, 2}
                /\ calls[1].op = "WriteHeader"
                /\ Len(calls) = 2 => calls[2].op = "Write"
                /\ Len(calls) = 1 <=> shouldSendJSON(req[i].r) /\ jsonErr
                /\ sink[i].sent = sink[i].header
                /\ sink[i].sent["Content-Type"] # NoHeader
                /\ sink[i].sent["X-Content-Type-Options"] = StrNosniff
                /\ Len(sink[i].body) = Len(calls) - 1

\* An error has been sent as JSON with one WriteHeader and then one Write.
C19_Witness ==
    \E i \in Slots :
        /\ RenderedJSON(i)
        /\ Len(CallsBySendError(sink[i])) = 2
        /\ CallsBySendError(sink[i])[1].op = "WriteHeader"
        /\ CallsBySendError(sink[i])[2].op = "Write"
        /\ CallsBySendError(sink[i])[2].b = TeapotBody

\* The response is the JSON envelope or the plain text message.
EnvelopeOrText(i) == IsJSON(sink[i]) \/ IsPlainText(sink[i], req[i].err)

\* C20 as claimed: for every error rendered, the status code the client
\* receives is never a 2xx status, and the response is either the JSON
\* envelope or the plain text message.
C20_Never2xx ==
    \A i \in Slots :
        Rendered(i) =>
            /\ sink[i].status \notin 200..299
            /\ EnvelopeOrText(i)

\* C20: for every error rendered, the status code the client receives is a
\* 2xx status only when the error itself declares that status with its
\* StatusCode method (an error that declares none, or 0, gets 500), and the
\* response is either the JSON envelope or the plain text message.
C20_2xxOnlyWhenDeclared ==
    \A i \in Slots :
        Rendered(i) =>
            /\ sink[i].status \in 200..299 =>
                   req[i].err.statusCoder /\ req[i].err.status = sink[i].status
            /\ ~req[i].err.statusCoder \/ req[i].err.status \notin 200..299 =>
                   sink[i].status \notin 200..299
            /\ sink[i].status # 0
            /\ EnvelopeOrText(i)

\* An error without a StatusCode method has been sent as plain text with
\* status 500.
C20_Witness ==
    \E i \in Slots :
        /\ Rendered(i)
        /\ ~req[i].err.statusCoder
        /\ sink[i].status = 500
        /\ IsPlainText(sink[i], req[i].err)

\* The error of request i was sent as plain text: the request asks for JSON
\* neither by its Accept header nor by its path.
RenderedText(i) == Rendered(i) /\ ~shouldSendJSON(req[i].r)

\* C21: under plain text rendering the body is err.Error() followed by one
\* newline, written as it is (no envelope, no escaping), and the status is
\* the status code determined for the error: "ERR" without capabilities
\* gives 500 and "ERR\n", an empty description gives the body "\n".
C21_PlainText ==
    \A i \in Slots :
        RenderedText(i) =>
            LET e == req[i].err
                want == IF e.statusCoder /\ e.status # 0 THEN e.status ELSE 500
            IN  /\ sink[i].body = <<e.text \o <<"\n">>>>
                /\ sink[i].status = want
                /\ sink[i].sent["Content-Type"] = StrTextPlain
                /\ Envelope(sink[i]) = NoValue
                /\ (e.text = StrERR /\ ~e.statusCoder) =>
                       sink[i].status = 500 /\ BodyBytes(sink[i]) = <<"E", "R", "R", "\n">>
                /\ e.text = StrEmpty => BodyBytes(sink[i]) = <<"\n">>

\* fmt.Errorf("ERR") has been sent as plain text: status 500, body "ERR\n".
C21_Witness ==
    \E i \in Slots :
        /\ RenderedText(i)
        /\ req[i].err.text = StrERR
        /\ ~req[i].err.statusCoder
        /\ ~req[i].err.coder
        /\ sink[i].status = 500
        /\ BodyBytes(sink[i]) = <<"E", "R", "R", "\n">>

\* The list f without its nil entries, and the middleware of a list of names.
WithoutNil(f) == SelectSeq(f, LAMBDA m : m # NilMiddleware)
Users(q) == [k \in 1..Len(q) |-> UserMiddleware(q[k])]
\* The handler a stack composes: n is a heap and a pointer into it.
Composed(n) == ApplyStack(n.heap, n.top, <<Terminal>>)

\* C22: for every call the program can make next, Use(f...) composes like
\* Use of f without its nil entries, that is the context middleware and then
\* the non-nil entries in order; s.Use(f...) composes like s followed by the
\* non-nil entries, and when f has no non-nil entry it returns s itself and
\* allocates nothing.
C22_NilSkipped ==
    \A f \in ArgsWithin[MaxNodes - Len(stacks)] :
        LET clean == WithoutNil(f)
        IN  /\ Len(stacks) + 1 + Len(clean) <= MaxNodes =>
                   /\ Composed(UseStack(stacks, f)) =
                          <<ContextMiddleware(Background)>> \o Users(clean) \o <<Terminal>>
                   /\ Composed(UseStack(stacks, f)) = Composed(UseStack(stacks, clean))
            /\ \A s \in roots :
                   LET n == StackUseStack(stacks, s, f)
                   IN  /\ Composed(n) = ApplyStack(stacks, s, Users(clean) \o <<Terminal>>)
                       /\ Composed(n) = Composed(StackUseStack(stacks, s, clean))
                       /\ clean = <<>> => n = [heap |-> stacks, top |-> s]

\* The program holds a stack s and the stack that s.Use(nil, m1) returns, and
\* s.Use(nil) is s.
C22_Witness ==
    \E s \in roots, p \in roots :
        /\ p # s
        /\ Len(stacks) < MaxNodes
        /\ registry[p].base = s
        /\ StackUseStack(SubSeq(stacks, 1, p - 1), s, <<NilMiddleware, "m1">>) =
               [heap |-> SubSeq(stacks, 1, p), top |-> p]
        /\ StackUseStack(stacks, s, <<NilMiddleware>>).top = s

\* C23: newContext(nil, nil, nil) returns a context and a cancel function:
\* the context is a child of the background context, no watcher is started
\* and no CloseNotify channel acquired, the context is not done until
\* something cancels it, and a call of the cancel function closes its Done.
C23_NilArguments ==
    \A i \in Slots :
        (scope[i].made /\ req[i].phase = "idle" /\ req[i].ctx = NilContext /\ sink[i] = NilWriter) =>
            /\ scope[i].parent = Background
            /\ watcher[i] = "none"
            /\ ~conn[i].acquired
            /\ scope[i].calls = 0 => ~scope[i].done /\ listener[i].state = "blocked"
            /\ scope[i].calls > 0 => scope[i].done /\ scope[i].closes = 1

\* The cancel function returned by newContext(nil, nil, nil) has been
\* called and the goroutine waiting on Done has gone on.
C23_Witness ==
    \E i \in Slots :
        /\ scope[i].made
        /\ req[i].ctx = NilContext
        /\ sink[i] = NilWriter
        /\ scope[i].calls = 1
        /\ scope[i].done
        /\ listener[i].state = "woken"

\* The calls of the cancel function made by its owner (the deferred cancel
\* or an explicit call), which are all calls but the watcher's.
OwnerCalls(i) == scope[i].calls - (IF conn[i].received THEN 1 ELSE 0)
\* The parent of the context of request i has been cancelled.
ParentDone(i) == ContextDone(scope[i].parent, appDone)

\* C24 as claimed: in every state in which the cancel function of a context
\* has not been called by its owner and the connection has not been reported
\* closed, its Done is not closed and a goroutine waiting on it is blocked.
C24_FiresOnlyOnCancelOrClose ==
    \A i \in Slots :
        (scope[i].made /\ OwnerCalls(i) = 0 /\ ~conn[i].closed) =>
            /\ ~scope[i].done
            /\ scope[i].closes = 0
            /\ listener[i].state = "blocked"

\* C24: in every state in which the cancel function of a context has not
\* been called by its owner, the connection has not been reported closed and
\* the parent context has not been cancelled, its Done is not closed and a
\* goroutine waiting on it is blocked.
C24_NoSpuriousDone ==
    \A i \in Slots :
        (scope[i].made /\ OwnerCalls(i) = 0 /\ ~conn[i].closed /\ ~ParentDone(i)) =>
            /\ ~scope[i].done
            /\ scope[i].closes = 0
            /\ scope[i].calls = 0
            /\ listener[i].state = "blocked"

\* A handler of a CloseNotifier request has returned an error to its
\* middleware and the context of the request is still not done.
C24_Witness ==
    \E i \in Slots :
        /\ scope[i].made
        /\ watcher[i] = "select"
        /\ req[i].phase = "up"
        /\ req[i].depth > 0
        /\ ~scope[i].done
        /\ listener[i].state = "blocked"

C26_Cooperative ==
    /\ [][\A i \in Slots :
            (\/ ~conn[i].closed /\ conn'[i].closed
             \/ ~conn[i].received /\ conn'[i].received) =>
                /\ req'[i] = req[i]
                /\ sink'[i] = sink[i]]_vars
    /\ [](\A i \in Slots :
            /\ req[i].phase = "returned" =>
                   /\ req[i].depth = 0
                   /\ Len(SelectEv(req[i].trace, "pre")) = Len(SelectEv(req[i].trace, "post"))
            /\ BySendError(sink[i]) # {} => req[i].phase = "returned" /\ ~req[i].err.nil)

\* The context of a request was cancelled by the close notification while
\* its handler chain was running; the handler wrote its response and returned
\* nil, and the middleware around it have not all returned yet.
C26_Witness ==
    \E i \in Slots :
        /\ conn[i].received
        /\ scope[i].done
        /\ scope[i].calls = 1
        /\ req[i].phase = "up"
        /\ req[i].depth > 0
        /\ req[i].err.nil
        /\ Served(i)
        /\ sink[i].status = 200

\* C27: a handler of a stack made by Context(ctx), or derived from one with
\* Use, has the context middleware of ctx as its outermost layer and no
\* other; every middleware and the terminal handler of a request it serves
\* are called with the request context, never with the background context
\* Handle passes in; and the request context is a child of ctx, done when
\* ctx is cancelled.
C27_ScopeFromContext ==
    /\ \A h \in handlers :
           h.stack # NilStack =>
               /\ h.chain[1] = ContextMiddleware(registry[h.stack].ctx)
               /\ \A k \in 2..Len(h.chain) : h.chain[k].kind # "context"
    /\ \A i \in Slots :
           FromStack(i) =>
               /\ req[i].trace # <<>> =>
                      /\ req[i].trace[1] = Event("pre", ContextMiddleware(registry[req[i].handler.stack].ctx), Background)
                      /\ scope[i].made
                      /\ scope[i].parent = registry[req[i].handler.stack].ctx
                      /\ ParentDone(i) => scope[i].done
               /\ \A k \in 2..Len(req[i].trace) : req[i].trace[k].ctx = "request"

\* The terminal handler of a stack derived from Context(app) has run with the
\* request context, and the cancellation of app has reached that context.
C27_Witness ==
    \E i \in Slots :
        /\ FromStack(i)
        /\ registry[req[i].handler.stack].ctx = AppContext
        /\ registry[req[i].handler.stack].base # NilStack
        /\ Served(i)
        /\ req[i].trace[Len(req[i].trace)] = Event("serve", Terminal, "request")
        /\ scope[i].parent = AppContext
        /\ appDone
        /\ scope[i].done
        /\ scope[i].calls = 0

\* The names of the layers of a handler, outermost first.
LayerNames(h) == [k \in 1..Len(h.chain) |-> h.chain[k].name]

\* C28: of two requests served at once by the handler of one stack, each has
\* a context and a watcher of its own: a step that releases one request or
\* delivers its close notification leaves the context, the watcher and the
\* waiting goroutine of the other as they were; the Done of a request is
\* closed only after its own release, its own close notification or the
\* cancellation of its parent; and both requests enter the layers of the
\* handler in the same order.
C28_Concurrent ==
    /\ [][\A i \in Conns : \A j \in Conns \ {i} :
             (req'[i] # req[i] \/ conn'[i] # conn[i] \/ watcher'[i] # watcher[i]) =>
                 /\ scope'[j] = scope[j]
                 /\ watcher'[j] = watcher[j]
                 /\ listener'[j] = listener[j]
                 /\ conn'[j] = conn[j]]_vars
    /\ [](\A i \in Conns :
             /\ scope[i].done => (req[i].depth = 0 \/ conn[i].received \/ ParentDone(i))
             /\ watcher[i] = "select" => scope[i].made /\ sink[i].closeNotifier
             /\ IsPrefix(SelectEv(req[i].trace, "pre"), LayerNames(req[i].handler))
             /\ \A j \in Conns : req[j].handler = req[i].handler)

\* Both requests are inside the chain at once, each with a context and a
\* running watcher; the first was cancelled by its close notification and
\* the second is not done.
C28_Witness ==
    /\ \A i \in Conns : req[i].phase \in {"down", "up"} /\ req[i].depth > 1 /\ scope[i].made
    /\ conn[1].received /\ scope[1].done /\ watcher[1] = "exited"
    /\ ~scope[2].done /\ watcher[2] = "select" /\ listener[2].state = "blocked"
    /\ ~appDone

\* Whether an option of the call sets the severity.
SeverityOverridden(c) == \E k \in 1..Len(c.opts) : c.opts[k].op = "WithSeverity"

\* C29: the message returned by a call of Warn that passes no option setting
\* the severity has Severity = SeverityWarning, and it was printed exactly
\* when SeverityWarning >= MinSeverity and Print was not nil at the call.
C29_WarnIsWarning ==
    LET c == logging.call
    IN  (c.fn = "Warn" /\ ~SeverityOverridden(c)) =>
            /\ c.m.Severity = SeverityWarning
            /\ c.printed <=> (SeverityWarning >= c.MinSeverity /\ c.printFn)

\* The flags of the environment that are true.
FlagsSet ==
    {f \in {"production", "test", "development"} :
        \/ f = "production" /\ IsProduction
        \/ f = "test" /\ IsTest
        \/ f = "development" /\ IsDevelopment}

\* The flag that goes with the prefix of name, if it has one of the three.
FlagsOf(name) ==
    {f \in {"production", "test", "development"} :
        \/ f = "production" /\ HasPrefix(name, StrProduction)
        \/ f = "test" /\ HasPrefix(name, StrTest)
        \/ f = "development" /\ HasPrefix(name, StrDevelopment)}

\* C30: when the last SetName(name) returned nil, Name() is name and exactly
\* one of IsProduction, IsTest, IsDevelopment is true, the one of the prefix
\* of name; CheckTest() is ErrNotTest exactly when IsTest() is false; and a
\* SetName with a name that does not match the pattern or has none of the
\* three prefixes returned an error and a name that does returned no
\* ErrInvalidName.
C30_SetName ==
    LET l == environment.last
    IN  /\ (l.called /\ l.err = NilError) =>
               /\ Name = l.name
               /\ Cardinality(FlagsSet) = 1
               /\ FlagsSet = FlagsOf(l.name)
        /\ (CheckTest = ErrNotTest) <=> ~IsTest
        /\ CheckTest \in {ErrNotTest, NilError}
        /\ (l.called /\ (~envPattern(l.name) \/ FlagsOf(l.name) = {})) => l.err = ErrInvalidName
        /\ (l.called /\ envPattern(l.name) /\ FlagsOf(l.name) # {}) => l.err # ErrInvalidName

\* SetName("test1") has succeeded with a callback registered that returned
\* nil; the environment is a test environment and CheckTest returns nil.
C30_Witness ==
    /\ environment.last = [called |-> TRUE, name |-> StrTest \o <<"1">>, err |-> NilError]
    /\ Name = StrTest \o <<"1">>
    /\ IsTest /\ ~IsProduction /\ ~IsDevelopment
    /\ CheckTest = NilError
    /\ environment.callbacks = <<FALSE>>

\* C31: a watcher goroutine exists only with the CloseNotify channel of a
\* CloseNotifier already acquired, and CloseNotify is called only in the step
\* of newContext that makes the context and starts the watcher, while the
\* request is on its way into the chain: never later, never after the
\* handler has returned.
C31_AcquiredBeforeWatcher ==
    /\ [](\A i \in Slots :
             /\ watcher[i] # "none" => conn[i].acquired /\ sink[i].closeNotifier
             /\ conn[i].acquired => scope[i].made /\ sink[i].closeNotifier)
    /\ [][\A i \in Slots :
             (conn'[i].acquired /\ ~conn[i].acquired) =>
                 /\ ~scope[i].made /\ scope'[i].made
                 /\ req[i].phase = "down"
                 /\ watcher[i] = "none" /\ watcher'[i] = "select"]_vars

\* The request of a CloseNotifier has completed: its watcher has exited on
\* the release of the context and the channel it selected on was acquired.
C31_Witness ==
    \E i \in Slots :
        /\ req[i].phase = "returned"
        /\ sink[i].closeNotifier
        /\ conn[i].acquired
        /\ ~conn[i].closed
        /\ watcher[i] = "exited"

\* C32: a request has at most one watcher goroutine, started by the step of
\* newContext that makes its context and only for a CloseNotifier, and never
\* started again; the context of a request whose writer is no CloseNotifier
\* has no watcher, receives no close notification, and is done only once its
\* cancel function was called by the Context middleware on return or its
\* parent was cancelled.
C32_OneWatcher ==
    /\ [](\A i \in Slots :
             /\ watcher[i] \in {"none", "select", "exited"}
             /\ watcher[i] # "none" => scope[i].made /\ sink[i].closeNotifier
             /\ (req[i].phase # "idle" /\ ~sink[i].closeNotifier) =>
                    /\ watcher[i] = "none"
                    /\ ~conn[i].received
                    /\ scope[i].done => (req[i].depth = 0 /\ scope[i].calls = 1) \/ ParentDone(i)
                    /\ scope[i].calls > 0 => req[i].depth = 0)
    /\ [][\A i \in Slots :
             (watcher'[i] = "select" /\ watcher[i] # "select") =>
                 /\ watcher[i] = "none"
                 /\ ~scope[i].made /\ scope'[i].made
                 /\ sink[i].closeNotifier]_vars

\* The client of a request whose writer is no CloseNotifier has closed the
\* connection while the handler chain is running: there is no watcher and
\* the context is not done.
C32_Witness ==
    \E i \in Slots :
        /\ ~sink[i].closeNotifier
        /\ scope[i].made
        /\ req[i].depth > 1
        /\ conn[i].closed
        /\ watcher[i] = "none"
        /\ ~scope[i].done

C34_ParentAndChild ==
    /\ [](\A i \in Slots :
             (scope[i].made /\ scope[i].parent = AppContext /\ appDone) => scope[i].done)
    /\ [][appDone' # appDone =>
             \A i \in Slots :
                 /\ req'[i] = req[i]
                 /\ conn'[i] = conn[i]
                 /\ watcher'[i] = watcher[i]
                 /\ scope'[i].calls = scope[i].calls]_vars
    /\ [][\A i \in Slots :
             (scope'[i].calls # scope[i].calls \/ conn'[i] # conn[i]) => appDone' = appDone]_vars
    /\ \A i \in Slots :
           (appDone /\ scope[i].parent = AppContext /\ watcher[i] = "select") ~> (watcher[i] = "exited")

\* The watcher of a request in the chain has returned after the parent was
\* cancelled, with no call of the cancel function and no close notification.
C34_Witness ==
    \E i \in Slots :
        /\ appDone
        /\ scope[i].parent = AppContext
        /\ scope[i].done
        /\ scope[i].calls = 0
        /\ ~conn[i].closed
        /\ watcher[i] = "exited"
        /\ req[i].depth > 0

\* The name and the flags of the environment.
Settings(e) == <<e.envname, e.isProduction, e.isTest, e.isDevelopment>>

\* C35: a call of SetName with a name that does not match the pattern or has
\* none of the three prefixes returns ErrInvalidName, a call with a valid
\* name while a registered callback returns an error returns that error, and
\* every call that returns an error leaves Name() and the three flags as
\* they were before the call.
C35_FailedSetName ==
    [][LET e == environment
           n == environment'.last.name
           l == environment'.last
       IN  (environment' # e /\ environment'.callbacks = e.callbacks) =>
               /\ l.called
               /\ (~envPattern(n) \/ FlagsOf(n) = {}) => l.err = ErrInvalidName
               /\ (envPattern(n) /\ FlagsOf(n) # {} /\ \E k \in 1..Len(e.callbacks) : e.callbacks[k]) =>
                      l.err = ErrCallback
               /\ l.err # NilError => Settings(environment') = Settings(e)]_vars

\* SetName("production") has failed on a callback after SetName("test1")
\* succeeded: the environment is still test1.
C35_Witness ==
    /\ environment.last = [called |-> TRUE, name |-> StrProduction, err |-> ErrCallback]
    /\ Name = StrTest \o <<"1">>
    /\ IsTest /\ ~IsProduction /\ ~IsDevelopment

\* C36: in every state of package env, from the start of the program on,
\* exactly one of IsProduction(), IsTest(), IsDevelopment() is true, the one
\* of the prefix of Name().
C36_ExactlyOneFlag ==
    /\ Cardinality(FlagsSet) = 1
    /\ FlagsSet = FlagsOf(Name)

\* The status codes that can be counted, and the number of writers that
\* have counted key.
CountedStatuses == MetricStatuses \cup {StatusOK}
CountedFor(key) == Cardinality({i \in MetricWriters : \E k \in 1..Len(metrics.w[i].counted) : metrics.w[i].counted[k] = key})

\* C37: whatever WriteHeader and Write calls are made on a responseWriter,
\* it adds to the status counters at most once; when its calls have returned
\* the key it counted is that of the first status written, the one the
\* wrapped writer sent (200 when Write came first); and each status counter
\* is the number of writers that counted its key, so that no later call has
\* changed a counter.
C37_CountedOnce ==
    /\ \A i \in MetricWriters :
           LET w == metrics.w[i]
           IN  /\ Len(w.counted) <= 1
               /\ ~w.wroteHeader => w.counted = <<>>
               /\ (w.pc = "idle" /\ w.wroteHeader) =>
                      /\ w.responseWriter.status # 0
                      /\ w.counted = <<Itoa(w.responseWriter.status)>>
                      /\ w.responseWriter.log[1].op = "WriteHeader"
                      /\ w.responseWriter.log[1].status = w.responseWriter.status
    /\ \A s \in CountedStatuses : Get(metrics.responses, Itoa(s)) = CountedFor(Itoa(s))
    /\ DOMAIN metrics.responses \subseteq {Itoa(s) : s \in CountedStatuses} \cup {StrTotal}

\* A writer on which WriteHeader(399) and then WriteHeader(400) were called
\* has counted 399 only.
C37_Witness ==
    \E i \in MetricWriters :
        LET w == metrics.w[i]
        IN  /\ w.pc = "idle"
            /\ w.calls = 2
            /\ Len(w.responseWriter.log) = 2
            /\ w.responseWriter.log[1].status = 399
            /\ w.responseWriter.log[2].op = "WriteHeader"
            /\ w.responseWriter.log[2].status = StatusBadRequest
            /\ w.counted = <<Itoa(399)>>
            /\ Get(metrics.errors, StrTotal) = 0

\* The sum of the entries of m for the status codes of S.
RECURSIVE SumOver(_, _)
SumOver(m, S) ==
    IF S = {} THEN 0
    ELSE LET s == CHOOSE x \in S : TRUE
         IN  Get(m, Itoa(s)) + SumOver(m, S \ {s})

\* No call on a responseWriter is in progress.
Quiescent == \A i \in MetricWriters : metrics.w[i].pc = "idle"

\* C38: when the calls made on the responseWriters have returned, also after
\* they ran interleaved, responses["total"] is the sum of the responses of
\* every status and errors["total"] the sum of the errors of every status,
\* and errors[k] = responses[k] for every status k >= 400; and at no time
\* has a status below 400 an entry in errors.
C38_Totals ==
    /\ Quiescent =>
           /\ Get(metrics.responses, StrTotal) = SumOver(metrics.responses, CountedStatuses)
           /\ Get(metrics.errors, StrTotal) = SumOver(metrics.errors, CountedStatuses)
           /\ \A s \in CountedStatuses :
                  s >= 400 => Get(metrics.errors, Itoa(s)) = Get(metrics.responses, Itoa(s))
    /\ \A s \in CountedStatuses : s < 400 => Itoa(s) \notin DOMAIN metrics.errors
    /\ DOMAIN metrics.errors \subseteq {Itoa(s) : s \in CountedStatuses} \cup {StrTotal}

\* Two responses with status 400, written by calls that ran interleaved,
\* have been counted.
C38_Witness ==
    /\ Quiescent
    /\ Get(metrics.responses, StrTotal) = 2
    /\ Get(metrics.errors, Itoa(StatusBadRequest)) = 2
    /\ Get(metrics.errors, StrTotal) = 2

\* ---------------------------------------------------------------- C39
\* The last WriteResponse call was made on compressed data whose encoding
\* the Accept-Encoding header of the request does not contain.
NotAccepted ==
    /\ raw.last.made
    /\ IsCompressed(raw.last.before).ok
    /\ ~Contains(raw.last.ae, IsCompressed(raw.last.before).data.ContentEncoding)

\* The response of the last call has a Content-Encoding header.
HasContentEncoding == raw.last.w.header["Content-Encoding"] # NoHeader

\* The body the last call sent is the compressed content of the data.
SentCompressed ==
    /\ IsCompressed(raw.last.before).ok
    /\ raw.last.w.body = <<raw.last.before.Content>>

\* The body the last call sent is the decompressed content of the data (no
\* body and status 204 when that content is empty).
SentDecompressed ==
    LET d == Decompress(raw.last.before)
    IN  /\ d.err = NilError
        /\ IF Len(d.data.Content) = 0
           THEN raw.last.w.body = <<>> /\ raw.last.w.status = StatusNoContent
           ELSE raw.last.w.body = <<d.data.Content>>

\* C39: after every WriteResponse call the response has a Content-Encoding
\* header exactly when the body sent is compressed, and when the request's
\* Accept-Encoding does not contain the data's encoding the body is sent
\* decompressed and the response has no Content-Encoding header.
C39_ContentEncoding ==
    raw.last.made =>
        /\ HasContentEncoding <=> SentCompressed
        /\ NotAccepted => SentDecompressed /\ ~HasContentEncoding

\* C39 (amended): the same holds for every WriteResponse call that returns
\* nil, the header sent being the one left on the response; a call returns
\* an error only when the encoding is not accepted and Decompress fails, and
\* then nothing is written and the headers are as they were before the call.
C39_ContentEncodingUnlessError ==
    raw.last.made =>
        /\ raw.last.err = NilError =>
               /\ HasContentEncoding <=> SentCompressed
               /\ HasContentEncoding =>
                      raw.last.w.header["Content-Encoding"] = raw.last.before.ContentEncoding
               /\ NotAccepted => SentDecompressed /\ ~HasContentEncoding
               /\ raw.last.w.sent["Content-Encoding"] = raw.last.w.header["Content-Encoding"]
        /\ raw.last.err # NilError =>
               /\ NotAccepted
               /\ Decompress(raw.last.before).err = raw.last.err
               /\ raw.last.w = raw.last.w0
               /\ raw.data.Content = raw.last.before.Content

\* A call on gzip data for a request that accepts no encoding, on a response
\* that already had a Content-Encoding header, has sent the plain payload.
C39_Witness ==
    /\ raw.last.made
    /\ NotAccepted
    /\ raw.last.err = NilError
    /\ raw.last.before.ContentEncoding = ceGzip
    /\ raw.last.w0.header["Content-Encoding"] = ceGzip
    /\ raw.last.w.body = <<RawPayload>>
    /\ ~HasContentEncoding

====
